---- MODULE Spec2Model ----
(***************************************************************************)
(* Mixed-integer convex relaxations of SO(3) (rotation_constraint.cc).     *)
(*                                                                         *)
(* The MathematicalProgram that the relaxations write into is modelled as  *)
(* a builder: `prog` holds the decision variables created so far (a        *)
(* variable's id is its position in prog.vars) and the constraints in      *)
(* the order they were added.  A caller creates a program, creates its     *)
(* rotation-matrix variables and calls one of the relaxation               *)
(* constructors; the internal helpers are also called directly, the way    *)
(* the unit tests of the internal namespace call them.                     *)
(*                                                                         *)
(* Real quantities are kept exact: a value is an integer numerator over a  *)
(* common positive denominator, and a rotation matrix is the rational      *)
(* matrix of an integer quaternion.                                        *)
(***************************************************************************)
EXTENDS Integers, Sequences, FiniteSets, TLC

VARIABLES prog, R, pc, ret

vars == <<prog, R, pc, ret>>

----------------------------------------------------------------------------
(* Bounds of the exploration.                                              *)

\* Largest num_intervals_per_half_axis a caller passes.
MaxN == 3

\* Integer quaternions with components in -MaxQuat..MaxQuat give the
\* rotation matrices that are substituted into the constraints.
MaxQuat == 1

\* Values tried for the auxiliary variables t(i), s(i) are 0..MaxAux.
MaxAux == 1

----------------------------------------------------------------------------
(* Small arithmetic helpers.                                               *)

RECURSIVE Pow2(_)
Pow2(n) == IF n <= 0 THEN 1 ELSE 2 * Pow2(n - 1)

Axes == 0..2

\* Zero-based vectors and matrices, as Eigen indexes them.
Vec3(a, b, c) == [i \in Axes |-> IF i = 0 THEN a ELSE IF i = 1 THEN b ELSE c]

Transpose(M) == [i \in Axes |-> [j \in Axes |-> M[j][i]]]

Col(M, j) == [i \in Axes |-> M[i][j]]

Row(M, i) == [j \in Axes |-> M[i][j]]

\* n == 1 ? 0 : 1 + CeilLog2((n + 1) / 2)
RECURSIVE CeilLog2(_)
CeilLog2(n) == IF n <= 1 THEN 0 ELSE 1 + CeilLog2((n + 1) \div 2)

\* math::CalculateReflectedGrayCodes: row i holds the digits of
\* i ^ (i >> 1), most significant digit in column 0; no row at all for a
\* non-positive digit count.
CalculateReflectedGrayCodes(num_digits) ==
  LET num_codes == IF num_digits <= 0 THEN 0 ELSE Pow2(num_digits)
  IN [i \in 0..(num_codes - 1) |->
        [j \in 0..(num_digits - 1) |->
           ((i \div Pow2(num_digits - j - 1)) + (i \div Pow2(num_digits - j))) % 2]]

\* internal::FlipVector: bit b of the orthant index negates axis b.
FlipVector(vpos, orthant) ==
  [i \in Axes |-> IF (orthant \div Pow2(i)) % 2 = 1 THEN -vpos[i] ELSE vpos[i]]

----------------------------------------------------------------------------
(* The MathematicalProgram being built, and symbolic linear expressions.   *)

\* A program with no decision variable and no constraint.
EmptyProg == [vars |-> <<>>, cons |-> <<>>]

\* prog->NewContinuousVariables / NewBinaryVariables: the new variables get
\* the next ids.
NewVariables(p, count, name, type) ==
  [p EXCEPT !.vars = @ \o [k \in 1..count |-> [name |-> name, type |-> type]]]

\* The 3 x 3 matrix of the nine variables created after `base`, stored
\* column by column.
Matrix3Ids(base) == [i \in Axes |-> [j \in Axes |-> base + 3 * j + i + 1]]

\* The vector of the three variables created after `base`.
Vector3Ids(base) == [i \in Axes |-> base + i + 1]

AddConstraint(p, c) == [p EXCEPT !.cons = Append(@, c)]

\* Adds the constraints cs in their order.
AddConstraints(p, cs) == [p EXCEPT !.cons = @ \o cs]

\* The constraint c when an `if (cond)` guards its call, nothing otherwise.
ConstraintIf(cond, c) == IF cond THEN <<c>> ELSE <<>>

\* symbolic::Expression restricted to linear expressions: a sequence of
\* <<coefficient, variable id>> terms and a constant.
LinConst(k) == [terms |-> <<>>, const |-> k]

LinVar(v) == [terms |-> <<<<1, v>>>>, const |-> 0]

LinPlus(e1, e2) == [terms |-> e1.terms \o e2.terms, const |-> e1.const + e2.const]

LinScale(k, e) ==
  [terms |-> [n \in 1..Len(e.terms) |-> <<k * e.terms[n][1], e.terms[n][2]>>],
   const |-> k * e.const]

LinMinus(e1, e2) == LinPlus(e1, LinScale(-1, e2))

\* AddLinearConstraint(lhs <= rhs) and AddLinearConstraint(lhs >= rhs) on
\* symbolic formulas: the constraint lhs - rhs <= 0, resp. lhs - rhs >= 0.
LinearLe(lhs, rhs) ==
  [kind |-> "linear", e |-> LinMinus(lhs, rhs),
   has_lb |-> FALSE, lb |-> 0, has_ub |-> TRUE, ub |-> 0]

LinearGe(lhs, rhs) ==
  [kind |-> "linear", e |-> LinMinus(lhs, rhs),
   has_lb |-> TRUE, lb |-> 0, has_ub |-> FALSE, ub |-> 0]

LinearEq(lhs, rhs) ==
  [kind |-> "linear", e |-> LinMinus(lhs, rhs),
   has_lb |-> TRUE, lb |-> 0, has_ub |-> TRUE, ub |-> 0]

\* AddLinearConstraint(a, lb, ub, x): lb <= a . x <= ub.
LinearRange(e, lb, ub) ==
  [kind |-> "linear", e |-> e,
   has_lb |-> TRUE, lb |-> lb, has_ub |-> TRUE, ub |-> ub]

\* AddBoundingBoxConstraint(lb, ub, x): lb <= x(k) <= ub for every entry.
BoundingBox(lb, ub, xs) == [kind |-> "bbox", lb |-> lb, ub |-> ub, xs |-> xs]

----------------------------------------------------------------------------
(* Roll-pitch-yaw limits.                                                  *)

kRoll_NegPI_2_to_PI_2 == 2

kRoll_0_to_PI == 4

kPitch_NegPI_2_to_PI_2 == 8

kPitch_0_to_PI == 16

kYaw_NegPI_2_to_PI_2 == 32

kYaw_0_to_PI == 64

\* Every combination of the six limit flags.
RollPitchYawLimits == {2 * k : k \in 0..63}

\* limits & flag, for a flag that is a power of two.
And(limits, flag) == (limits \div flag) % 2 = 1

AddBoundingBoxConstraintsImpliedByRollPitchYawLimits(p, Rm, limits) ==
  AddConstraints(p,
    ConstraintIf(And(limits, kPitch_NegPI_2_to_PI_2) /\ And(limits, kYaw_NegPI_2_to_PI_2),
                 BoundingBox(0, 1, <<Rm[0][0]>>))
    \o ConstraintIf(And(limits, kPitch_NegPI_2_to_PI_2) /\ And(limits, kYaw_0_to_PI),
                    BoundingBox(0, 1, <<Rm[1][0]>>))
    \o ConstraintIf(And(limits, kPitch_0_to_PI),
                    BoundingBox(-1, 0, <<Rm[2][0]>>))
    \o ConstraintIf(And(limits, kRoll_NegPI_2_to_PI_2) /\ And(limits, kYaw_NegPI_2_to_PI_2)
                    /\ And(limits, kPitch_0_to_PI) /\ And(limits, kRoll_0_to_PI)
                    /\ And(limits, kYaw_0_to_PI),
                    BoundingBox(0, 1, <<Rm[1][1]>>))
    \o ConstraintIf(And(limits, kPitch_NegPI_2_to_PI_2) /\ And(limits, kRoll_0_to_PI),
                    BoundingBox(0, 1, <<Rm[2][1]>>))
    \o ConstraintIf(And(limits, kRoll_0_to_PI) /\ And(limits, kYaw_0_to_PI)
                    /\ And(limits, kRoll_NegPI_2_to_PI_2) /\ And(limits, kYaw_NegPI_2_to_PI_2)
                    /\ And(limits, kPitch_0_to_PI),
                    BoundingBox(0, 1, <<Rm[0][2]>>))
    \o ConstraintIf(And(limits, kPitch_NegPI_2_to_PI_2) /\ And(limits, kRoll_NegPI_2_to_PI_2),
                    BoundingBox(0, 1, <<Rm[2][2]>>)))

\* The same function with the limits test of B(2, 1) dropping its roll flag.
RpyBinaryWithoutRollFlag(p, Bm, limits) ==
  AddConstraints(p,
    ConstraintIf(And(limits, kPitch_NegPI_2_to_PI_2) /\ And(limits, kYaw_NegPI_2_to_PI_2),
                 BoundingBox(1, 1, <<Bm[0][0]>>))
    \o ConstraintIf(And(limits, kPitch_NegPI_2_to_PI_2) /\ And(limits, kYaw_0_to_PI),
                    BoundingBox(1, 1, <<Bm[1][0]>>))
    \o ConstraintIf(And(limits, kPitch_0_to_PI),
                    BoundingBox(0, 0, <<Bm[2][0]>>))
    \o ConstraintIf(And(limits, kRoll_NegPI_2_to_PI_2) /\ And(limits, kYaw_NegPI_2_to_PI_2)
                    /\ And(limits, kPitch_0_to_PI) /\ And(limits, kRoll_0_to_PI)
                    /\ And(limits, kYaw_0_to_PI),
                    BoundingBox(1, 1, <<Bm[1][1]>>))
    \o ConstraintIf(And(limits, kPitch_NegPI_2_to_PI_2),
                    BoundingBox(1, 1, <<Bm[2][1]>>))
    \o ConstraintIf(And(limits, kRoll_0_to_PI) /\ And(limits, kYaw_0_to_PI)
                    /\ And(limits, kRoll_NegPI_2_to_PI_2) /\ And(limits, kYaw_NegPI_2_to_PI_2)
                    /\ And(limits, kPitch_0_to_PI),
                    BoundingBox(1, 1, <<Bm[0][2]>>))
    \o ConstraintIf(And(limits, kPitch_NegPI_2_to_PI_2) /\ And(limits, kRoll_NegPI_2_to_PI_2),
                    BoundingBox(1, 1, <<Bm[2][2]>>)))

AddBoundingBoxConstraintsImpliedByRollPitchYawLimitsToBinary(p, Bm, limits) ==
  AddConstraints(p,
    ConstraintIf(And(limits, kPitch_NegPI_2_to_PI_2) /\ And(limits, kYaw_NegPI_2_to_PI_2),
                 BoundingBox(1, 1, <<Bm[0][0]>>))
    \o ConstraintIf(And(limits, kPitch_NegPI_2_to_PI_2) /\ And(limits, kYaw_0_to_PI),
                    BoundingBox(1, 1, <<Bm[1][0]>>))
    \o ConstraintIf(And(limits, kPitch_0_to_PI),
                    BoundingBox(0, 0, <<Bm[2][0]>>))
    \o ConstraintIf(And(limits, kRoll_NegPI_2_to_PI_2) /\ And(limits, kYaw_NegPI_2_to_PI_2)
                    /\ And(limits, kPitch_0_to_PI) /\ And(limits, kRoll_0_to_PI)
                    /\ And(limits, kYaw_0_to_PI),
                    BoundingBox(1, 1, <<Bm[1][1]>>))
    \o ConstraintIf(And(limits, kPitch_NegPI_2_to_PI_2) /\ And(limits, kRoll_0_to_PI),
                    BoundingBox(1, 1, <<Bm[2][1]>>))
    \o ConstraintIf(And(limits, kRoll_0_to_PI) /\ And(limits, kYaw_0_to_PI)
                    /\ And(limits, kRoll_NegPI_2_to_PI_2) /\ And(limits, kYaw_NegPI_2_to_PI_2)
                    /\ And(limits, kPitch_0_to_PI),
                    BoundingBox(1, 1, <<Bm[0][2]>>))
    \o ConstraintIf(And(limits, kPitch_NegPI_2_to_PI_2) /\ And(limits, kRoll_NegPI_2_to_PI_2),
                    BoundingBox(1, 1, <<Bm[2][2]>>)))

----------------------------------------------------------------------------
(* Orthant and interval indexing.                                          *)

OrthantToAxisMask(orthant) == FlipVector(Vec3(1, 1, 1), orthant)

\* The same function with the mirrored index off by one.
PositiveAxisIndexMirroredOffByOne(interval_idx, orthant, num_intervals_per_half_axis) ==
  LET mask == OrthantToAxisMask(orthant)
  IN [i \in Axes |->
        IF mask[i] > 0
          THEN interval_idx[i] + num_intervals_per_half_axis
          ELSE num_intervals_per_half_axis - interval_idx[i]]

PositiveAxisIntervalIndexToFullAxisIntervalIndex(interval_idx, orthant, num_intervals_per_half_axis) ==
  LET mask == OrthantToAxisMask(orthant)
  IN [i \in Axes |->
        IF mask[i] > 0
          THEN interval_idx[i] + num_intervals_per_half_axis
          ELSE num_intervals_per_half_axis - 1 - interval_idx[i]]

\* ret += gray_codes(interval_idx, i) ? 1 - b(i) : b(i), over the columns.
RECURSIVE PickBinarySum(_, _, _, _)
PickBinarySum(row, b, cols, i) ==
  IF i >= cols THEN LinConst(0)
  ELSE LinPlus(IF row[i] # 0 THEN LinMinus(LinConst(1), LinVar(b[i]))
                             ELSE LinVar(b[i]),
               PickBinarySum(row, b, cols, i + 1))

\* The same function with the two branches of the conditional exchanged.
PickBinaryExpressionBranchesSwapped(interval_idx, gray_codes, b) ==
  LinMinus(LinConst(Cardinality(DOMAIN b)),
           PickBinarySum(gray_codes[interval_idx], b, Cardinality(DOMAIN b), 0))

\* `gray_codes` is the table as the function reads it: the rows of the
\* table, followed by whatever memory a read past the last row returns.
PickBinaryExpressionGivenInterval(interval_idx, gray_codes, b) ==
  PickBinarySum(gray_codes[interval_idx], b, Cardinality(DOMAIN b), 0)

\* The same function with the orthant ignored: the index of the box in the
\* all-positive orthant whatever the orthant is.
CalcBoxBinaryExpressionIgnoringOrthant(xi, yi, zi, orthant, gray_codes, B_vec, num_intervals_per_half_axis) ==
  [axis \in Axes |->
     PickBinaryExpressionGivenInterval(
         Vec3(xi, yi, zi)[axis] + num_intervals_per_half_axis, gray_codes, B_vec[axis])]

\* B_vec[axis] are the binary variables of the axis, most significant
\* digit first.
CalcBoxBinaryExpressionInOrthant(xi, yi, zi, orthant, gray_codes, B_vec, num_intervals_per_half_axis) ==
  LET orthant_box_interval_idx ==
        PositiveAxisIntervalIndexToFullAxisIntervalIndex(
            Vec3(xi, yi, zi), orthant, num_intervals_per_half_axis)
  IN [axis \in Axes |->
        PickBinaryExpressionGivenInterval(
            orthant_box_interval_idx[axis], gray_codes, B_vec[axis])]

----------------------------------------------------------------------------
(* Relaxations without binary variables.                                   *)

\* One Lorentz cone z(0) >= |z(1..3)| whose first entry is a constant given
\* by its square, and whose other entries are linear expressions.
LorentzCone(z0_squared, z) == [kind |-> "lorentz", z0_squared |-> z0_squared, z |-> z]

\* AddRotatedLorentzConeConstraint(A, b, x): z = A x + b with
\* z(0) z(1) >= z(2)^2 + ... + z(4)^2, z(0) >= 0, z(1) >= 0.
RotatedLorentzCone(A, b, x) == [kind |-> "rotated_lorentz", A |-> A, b |-> b, x |-> x]

\* AddLinearMatrixInequalityConstraint(F, x): F(0) + sum_k x(k) F(k) is
\* positive semidefinite.
LinearMatrixInequality(F, x) == [kind |-> "lmi", F |-> F, x |-> x]

\* The variables of a 3 x 3 matrix in storage order.
MatrixEntries(Rm) == [k \in 1..9 |-> Rm[(k - 1) % 3][(k - 1) \div 3]]

NewRotationMatrixVars(p, name) ==
  LET p1 == NewVariables(p, 9, name, "continuous")
      Rm == Matrix3Ids(Len(p.vars))
      p2 == AddConstraint(p1, BoundingBox(-1, 1, MatrixEntries(Rm)))
      trace == LinPlus(LinVar(Rm[0][0]), LinPlus(LinVar(Rm[1][1]), LinVar(Rm[2][2])))
      p3 == AddConstraint(p2, LinearRange(trace, -1, 3))
  IN [prog |-> p3, R |-> Rm]

\* z = [sqrt(2); v1 + v2], then z = [sqrt(2); v1 - v2].
AddOrthogonalConstraint(p, v1, v2) ==
  LET p1 == AddConstraint(p,
              LorentzCone(2, [i \in Axes |-> LinPlus(LinVar(v1[i]), LinVar(v2[i]))]))
  IN AddConstraint(p1,
              LorentzCone(2, [i \in Axes |-> LinMinus(LinVar(v1[i]), LinVar(v2[i]))]))

RECURSIVE AddUnitNormCones(_, _, _)
AddUnitNormCones(p, Rm, i) ==
  IF i >= 3 THEN p
  ELSE LET A == [k \in 0..4 |-> [j \in Axes |-> IF k = j + 2 THEN 1 ELSE 0]]
           b == [k \in 0..4 |-> IF k < 2 THEN 1 ELSE 0]
           p1 == AddConstraint(p, RotatedLorentzCone(A, b, Col(Rm, i)))
           p2 == AddConstraint(p1, RotatedLorentzCone(A, b, Row(Rm, i)))
       IN AddUnitNormCones(p2, Rm, i + 1)

AddRotationMatrixOrthonormalSocpConstraint(p, Rm) ==
  LET p0 == AddUnitNormCones(p, Rm, 0)
      p1 == AddOrthogonalConstraint(p0, Col(Rm, 0), Col(Rm, 1))
      p2 == AddOrthogonalConstraint(p1, Col(Rm, 1), Col(Rm, 2))
      p3 == AddOrthogonalConstraint(p2, Col(Rm, 0), Col(Rm, 2))
      p4 == AddOrthogonalConstraint(p3, Row(Rm, 0), Row(Rm, 1))
      p5 == AddOrthogonalConstraint(p4, Row(Rm, 1), Row(Rm, 2))
      p6 == AddOrthogonalConstraint(p5, Row(Rm, 0), Row(Rm, 2))
  IN p6

\* A 4 x 4 matrix that is zero outside the listed <<row, column, value>>.
Matrix4(entries) ==
  [i \in 0..3 |-> [j \in 0..3 |->
     IF \E e \in entries : e[1] = i /\ e[2] = j
       THEN (CHOOSE e \in entries : e[1] = i /\ e[2] = j)[3]
       ELSE 0]]

F0 == Matrix4({<<0, 0, 1>>, <<1, 1, 1>>, <<2, 2, 1>>, <<3, 3, 1>>})

F11 == Matrix4({<<0, 0, -1>>, <<1, 1, 1>>, <<2, 2, 1>>, <<3, 3, -1>>})

\* F21 with the sign of its (1, 3) and (3, 1) entries reversed.
F21SignReversed == Matrix4({<<0, 2, -1>>, <<1, 3, -1>>, <<2, 0, -1>>, <<3, 1, -1>>})

F21 == Matrix4({<<0, 2, -1>>, <<1, 3, 1>>, <<2, 0, -1>>, <<3, 1, 1>>})

F31 == Matrix4({<<0, 1, 1>>, <<1, 0, 1>>, <<2, 3, 1>>, <<3, 2, 1>>})

F12 == Matrix4({<<0, 2, 1>>, <<1, 3, 1>>, <<2, 0, 1>>, <<3, 1, 1>>})

F22 == Matrix4({<<0, 0, -1>>, <<1, 1, -1>>, <<2, 2, 1>>, <<3, 3, 1>>})

F32 == Matrix4({<<0, 3, 1>>, <<1, 2, -1>>, <<2, 1, -1>>, <<3, 0, 1>>})

F13 == Matrix4({<<0, 1, 1>>, <<1, 0, 1>>, <<2, 3, -1>>, <<3, 2, -1>>})

F23 == Matrix4({<<0, 3, 1>>, <<1, 2, 1>>, <<2, 1, 1>>, <<3, 0, 1>>})

F33 == Matrix4({<<0, 0, 1>>, <<1, 1, -1>>, <<2, 2, 1>>, <<3, 3, -1>>})

AddRotationMatrixSpectrahedralSdpConstraint(p, Rm) ==
  AddConstraint(p,
    LinearMatrixInequality(<<F0, F11, F21, F31, F12, F22, F32, F13, F23, F33>>,
                           MatrixEntries(Rm)))

----------------------------------------------------------------------------
(* Orthant cuts on the sign digits.                                        *)

\* The constraints of row i for the columns col_idx0, col_idx1.
NotInSameOrOppositeRow(Bm, t, s, col_idx0, col_idx1, i) ==
  LET b_sum == LinPlus(LinPlus(LinVar(Bm[i][col_idx0]), LinVar(Bm[i][col_idx1])),
                       LinConst(-1))
      b_diff == LinMinus(LinVar(Bm[i][col_idx0]), LinVar(Bm[i][col_idx1]))
  IN << LinearGe(LinVar(t[i]), b_sum),
        LinearGe(b_sum, LinScale(-1, LinVar(t[i]))),
        LinearGe(LinVar(s[i]), b_diff),
        LinearGe(b_diff, LinScale(-1, LinVar(s[i]))) >>

\* One iteration of the loop over column pairs: the variables t and s,
\* t.sum() <= 2, s.sum() <= 2, then the four rows of each i.
NotInSameOrOppositePair(p, Bm, col_idx0, col_idx1) ==
  LET t == Vector3Ids(Len(p.vars))
      s == Vector3Ids(Len(p.vars) + 3)
      sum(x) == LinPlus(LinVar(x[0]), LinPlus(LinVar(x[1]), LinVar(x[2])))
  IN AddConstraints(
       NewVariables(NewVariables(p, 3, "t", "continuous"), 3, "s", "continuous"),
       << LinearLe(sum(t), LinConst(2)), LinearLe(sum(s), LinConst(2)) >>
       \o NotInSameOrOppositeRow(Bm, t, s, col_idx0, col_idx1, 0)
       \o NotInSameOrOppositeRow(Bm, t, s, col_idx0, col_idx1, 1)
       \o NotInSameOrOppositeRow(Bm, t, s, col_idx0, col_idx1, 2))

\* The same function without the test on num_intervals_per_half_axis.
NotInSameOrOppositeAlways(p, Bm, num_intervals_per_half_axis) ==
  NotInSameOrOppositePair(
    NotInSameOrOppositePair(NotInSameOrOppositePair(p, Bm, 0, 1), Bm, 0, 2),
    Bm, 1, 2)

\* The same function with the sum of s bounded by 3.
NotInSameOrOppositeLooseSum(p, Bm, num_intervals_per_half_axis) ==
  LET q == NotInSameOrOppositeAlways(p, Bm, num_intervals_per_half_axis)
  IN IF num_intervals_per_half_axis = Pow2(CeilLog2(num_intervals_per_half_axis))
       THEN [q EXCEPT !.cons =
              [k \in 1..Len(q.cons) |->
                 IF k > Len(p.cons) /\ (k - Len(p.cons)) % 14 = 2
                   THEN [q.cons[k] EXCEPT !.e.const = @ - 1]
                   ELSE q.cons[k]]]
       ELSE p

AddNotInSameOrOppositeOrthantConstraint(p, Bm, num_intervals_per_half_axis) ==
  IF num_intervals_per_half_axis = Pow2(CeilLog2(num_intervals_per_half_axis))
    THEN NotInSameOrOppositePair(
           NotInSameOrOppositePair(NotInSameOrOppositePair(p, Bm, 0, 1), Bm, 0, 2),
           Bm, 1, 2)
    ELSE p

----------------------------------------------------------------------------
(* The McCormick-envelope relaxation.                                      *)

\* The same function counting from 1.
EnvelopeMinValueFromOne(i, num_binary_variables_per_half_axis) ==
  <<i + 1, num_binary_variables_per_half_axis>>

\* EnvelopeMinValue(i, N) = i / N as <<numerator, denominator>>; defined
\* for every integer i.
EnvelopeMinValue(i, num_binary_variables_per_half_axis) ==
  <<i, num_binary_variables_per_half_axis>>

\* The count with two breakpoints too many.
NumLambdaTwoExtra(num_intervals_per_half_axis) == 2 * num_intervals_per_half_axis + 3

\* The count for intervals of half the width.
NumLambdaOfHalfWidthIntervals(num_intervals_per_half_axis) ==
  4 * num_intervals_per_half_axis + 1

\* int num_lambda = 2 * num_intervals_per_half_axis + 1
NumLambda(num_intervals_per_half_axis) == 2 * num_intervals_per_half_axis + 1

\* int num_digits = CeilLog2(num_lambda - 1)
NumDigits(num_lambda) == CeilLog2(num_lambda - 1)

\* AddLogarithmicSOS2Constraint(prog, lambda): creates the
\* ceil(log2(#intervals)) binary variables y and constrains lambda to be
\* non-negative, to sum to 1 and to be zero outside lambda(m), lambda(m+1),
\* where m is the interval whose reflected Gray code is y.
AddLogarithmicSOS2Constraint(p, lambda) ==
  LET num_interval == Cardinality(DOMAIN lambda) - 1
      num_y == CeilLog2(num_interval)
      p1 == NewVariables(p, num_y, "y", "binary")
      y == [k \in 0..(num_y - 1) |-> Len(p.vars) + 1 + k]
  IN [prog |-> AddConstraint(p1, [kind |-> "sos2", lambda |-> lambda, y |-> y]),
      y |-> y]

\* The terms coef(k) * x(k), k = 0 .. n - 1.
LinComb(coef, x, n) ==
  [terms |-> [k \in 1..n |-> <<coef[k - 1], x[k - 1]>>], const |-> 0]

\* sum_i (lambda0(i) + lambda1(i) + lambda2(i)) * phi_vec(i)^2 >= 1, with
\* phi_vec(i) = phi_num(i) / phi_den; the row is stated times phi_den^2.
AddUnitLengthConstraintWithLogarithmicSOS2(p, phi_num, phi_den, lambda0, lambda1, lambda2) ==
  LET n == Cardinality(DOMAIN phi_num)
      phi_square == [i \in 0..(n - 1) |-> phi_num[i] * phi_num[i]]
      x_sum_of_squares_ub ==
        LinPlus(LinComb(phi_square, lambda0, n),
                LinPlus(LinComb(phi_square, lambda1, n), LinComb(phi_square, lambda2, n)))
  IN AddConstraint(p, LinearGe(x_sum_of_squares_ub, LinConst(phi_den * phi_den)))

\* Squared norm of an integer vector.
SquaredNorm(x) == x[0] * x[0] + x[1] * x[1] + x[2] * x[2]

Minus(a, b) == [i \in Axes |-> a[i] - b[i]]

Negated(a) == [i \in Axes |-> -a[i]]

Dot(a, b) == a[0] * b[0] + a[1] * b[1] + a[2] * b[2]

Cross(a, b) ==
  Vec3(a[1] * b[2] - a[2] * b[1], a[2] * b[0] - a[0] * b[2], a[0] * b[1] - a[1] * b[0])

(* A box of the first orthant and the unit sphere.  The corners of the box *)
(* lie on a grid: their coordinates are integers over the denominator den. *)
(* A point where an edge crosses the sphere has one coordinate that is a   *)
(* square root, so an intersection point is kept as the vector of its      *)
(* SQUARED coordinates over den^2; no coordinate is negative, so the       *)
(* squares determine the point.                                            *)

Squares(x) == [axis \in Axes |-> x[axis] * x[axis]]

\* sqrt(1 - x^2 - y^2), as its square over den^2.
Intercept(x, y, den) == den * den - x * x - y * y

\* Vertex i of the box: bit `axis` of i selects bmin on that axis.
BoxVertex(bmin, bmax, i) ==
  [axis \in Axes |-> IF (i \div Pow2(axis)) % 2 = 1 THEN bmin[axis] ELSE bmax[axis]]

\* Edge e = 4 * axis + 2 * k1 + k2 runs along `axis`; k1 and k2 select bmin
\* or bmax on the two fixed axes, in the order the loops visit them.
BoxEdge(bmin, bmax, e, den) ==
  LET axis == e \div 4
      fixed_axis1 == (axis + 1) % 3
      fixed_axis2 == (axis + 2) % 3
      val1 == IF (e \div 2) % 2 = 0 THEN bmin[fixed_axis1] ELSE bmax[fixed_axis1]
      val2 == IF e % 2 = 0 THEN bmin[fixed_axis2] ELSE bmax[fixed_axis2]
      On(t) == [a \in Axes |-> IF a = axis THEN t
                               ELSE IF a = fixed_axis1 THEN val1 ELSE val2]
  IN [axis |-> axis,
      pt_closer |-> On(bmin[axis]),
      pt_farther |-> On(bmax[axis]),
      pt_intersect |-> [a \in Axes |-> IF a = axis THEN Intercept(val1, val2, den)
                                       ELSE IF a = fixed_axis1 THEN val1 * val1
                                       ELSE val2 * val2]]

\* An edge that also counts an end point lying on the sphere.
EdgeTouchesOrCrossesSphere(pt_closer, pt_farther, den) ==
  SquaredNorm(pt_closer) <= den * den /\ SquaredNorm(pt_farther) >= den * den

\* pt_closer.norm() < 1 && pt_farther.norm() > 1
EdgeCrossesSphere(pt_closer, pt_farther, den) ==
  SquaredNorm(pt_closer) < den * den /\ SquaredNorm(pt_farther) > den * den

\* The crossing points of the edges alone, without the vertices that lie
\* on the sphere.
BoxEdgeCrossingsOnly(bmin, bmax, den) ==
  IF SquaredNorm(bmin) = den * den THEN <<Squares(bmin)>>
  ELSE IF SquaredNorm(bmax) = den * den THEN <<Squares(bmax)>>
  ELSE LET edges == SelectSeq([k \in 1..12 |-> BoxEdge(bmin, bmax, k - 1, den)],
                              LAMBDA e : EdgeCrossesSphere(e.pt_closer, e.pt_farther, den))
       IN [k \in 1..Len(edges) |-> edges[k].pt_intersect]

ComputeBoxEdgesAndSphereIntersection(bmin, bmax, den) ==
  IF SquaredNorm(bmin) = den * den THEN <<Squares(bmin)>>
  ELSE IF SquaredNorm(bmax) = den * den THEN <<Squares(bmax)>>
  ELSE LET vertices == SelectSeq([k \in 1..8 |-> BoxVertex(bmin, bmax, k - 1)],
                                 LAMBDA vertex : SquaredNorm(vertex) = den * den)
           edges == SelectSeq([k \in 1..12 |-> BoxEdge(bmin, bmax, k - 1, den)],
                              LAMBDA e : EdgeCrossesSphere(e.pt_closer, e.pt_farther, den))
       IN [k \in 1..Len(vertices) |-> Squares(vertices[k])]
            \o [k \in 1..Len(edges) |-> edges[k].pt_intersect]

\* The box is taken to meet the sphere whenever its min corner is not
\* outside the sphere.
BoxMinNotOutsideSphere(box_min, box_max, N) == SquaredNorm(box_min) <= N * N

\* box_min_norm <= 1 + 2 eps && box_max_norm >= 1 - 2 eps, with the corners
\* box_min / N and box_max / N, in exact arithmetic.
BoxIntersectsSphere(box_min, box_max, N) ==
  SquaredNorm(box_min) <= N * N /\ SquaredNorm(box_max) >= N * N

\* The box is taken for a single point whenever its min corner lies on the
\* sphere.
MinCornerOnSphere(box_min, box_max, N) == SquaredNorm(box_min) = N * N

\* abs(box_min_norm - 1) < 2 eps || abs(box_max_norm - 1) < 2 eps, with the
\* corners box_min / N and box_max / N, in exact arithmetic.
MinOrMaxCornerOnSphere(box_min, box_max, N) ==
  SquaredNorm(box_min) = N * N \/ SquaredNorm(box_max) = N * N

\* 1E-3 is 1 / AlmostColinearInverse.
AlmostColinearInverse == 1000

\* The resolution at which the square roots in the coordinates of the
\* intersection points of a grid box are kept: the coordinate sqrt(s) / N
\* is floor(sqrt(s) * FixedPointUnit) over N * FixedPointUnit.
FixedPointUnit == 6000

\* floor(sqrt(m)), which lies in lo..(hi - 1).
RECURSIVE SqrtFloorBetween(_, _, _)
SqrtFloorBetween(m, lo, hi) ==
  IF hi - lo <= 1 THEN lo
  ELSE LET mid == (lo + hi) \div 2
       IN IF mid <= m \div mid THEN SqrtFloorBetween(m, mid, hi)
                                ELSE SqrtFloorBetween(m, lo, mid)

SqrtFloor(m) == SqrtFloorBetween(m, 0, 46341)

\* The intersection point with the squared coordinates pt, over
\* N * FixedPointUnit.
FixedPoint(pt) ==
  [axis \in Axes |-> SqrtFloor(pt[axis] * FixedPointUnit * FixedPointUnit)]

\* n_norm < 1E-3 in ComputeTriangleOutwardNormal, for three intersection
\* points of one box of the grid N given by their squared coordinates.  The
\* cross product is taken at the resolution, where the threshold is
\* (N * FixedPointUnit)^2 / 1000; the squares are taken of the components
\* over 128, which keeps them in range.
AlmostColinearOnGrid(pt0, pt1, pt2, N) ==
  LET q0 == FixedPoint(pt0)
      cross == Cross(Minus(FixedPoint(pt2), q0), Minus(FixedPoint(pt1), q0))
      limit == ((N * FixedPointUnit) * (N * FixedPointUnit)) \div AlmostColinearInverse
  IN /\ \A axis \in Axes : -limit < cross[axis] /\ cross[axis] < limit
     /\ SquaredNorm([axis \in Axes |-> cross[axis] \div 128])
          < (limit \div 128) * (limit \div 128)

\* Whether "The points are almost colinear." is thrown for the intersection
\* points pts of a box: by the co-planarity test for the first three points,
\* or by ComputeInnerFacetsForBoxSphereIntersection for any three.
AlmostColinearIsThrownForRegion(pts, N) ==
  \E i \in 1..Len(pts), j \in 1..Len(pts), k \in 1..Len(pts) :
    i < j /\ j < k /\ AlmostColinearOnGrid(pts[i], pts[j], pts[k], N)

\* Whether the error is thrown while the box (xi, yi, zi) is processed:
\* the box has an intersection region of at least three points, some
\* three of them almost colinear.
AlmostColinearIsThrownInCell(xi, yi, zi, N) ==
  LET box_min == Vec3(xi, yi, zi)
      box_max == Vec3(xi + 1, yi + 1, zi + 1)
  IN /\ BoxIntersectsSphere(box_min, box_max, N)
     /\ ~MinOrMaxCornerOnSphere(box_min, box_max, N)
     /\ LET pts == ComputeBoxEdgesAndSphereIntersection(box_min, box_max, N)
        IN Len(pts) >= 3 /\ AlmostColinearIsThrownForRegion(pts, N)

\* The boxes that the loops over xi, yi, zi complete: all N^3, or those
\* before the first box in which the error is thrown.
CellsCompleted(N) ==
  LET throwing == {cell \in 0..(N * N * N - 1) :
                     AlmostColinearIsThrownInCell(cell \div (N * N), (cell \div N) % N,
                                                  cell % N, N)}
  IN IF throwing = {} THEN N * N * N
     ELSE CHOOSE cell \in throwing : \A other \in throwing : cell <= other

\* a . x for a vector a of numbers and a vector x of variables.
LinDot(a, x) == [terms |-> [k \in 1..3 |-> <<a[k - 1], x[k - 1]>>], const |-> 0]

\* a.cross(x), one expression per component.
LinCross(a, x) ==
  [i \in Axes |->
     [terms |-> << <<a[(i + 1) % 3], x[(i + 2) % 3]>>, <<-a[(i + 2) % 3], x[(i + 1) % 3]>> >>,
      const |-> 0]]

\* The rows of a box that touches the sphere in the point u, with the
\* activation slack left out of the rows on v . v1 and v . v2.
McCormickPointRowsUngatedDotProducts(unique_intersection, N, o, orthant_c_sum, v, v1, v2) ==
  LET orthant_u == FlipVector(unique_intersection, o)
      v_minus_u(i) == LinPlus(LinScale(N, LinVar(v[i])), LinConst(-orthant_u[i]))
      v_dot_v1 == LinDot(orthant_u, v1)
      v_dot_v2 == LinDot(orthant_u, v2)
      v_cross_v1 == LinCross(orthant_u, v1)
      cross_minus_v2(i) == LinMinus(v_cross_v1[i], LinScale(N, LinVar(v2[i])))
      Pair(e, slack) == << LinearLe(e, LinScale(slack, orthant_c_sum)),
                           LinearGe(e, LinScale(-slack, orthant_c_sum)) >>
  IN Pair(v_minus_u(0), 2 * N) \o Pair(v_minus_u(1), 2 * N) \o Pair(v_minus_u(2), 2 * N)
     \o << LinearLe(v_dot_v1, LinConst(0)), LinearLe(LinConst(0), v_dot_v1),
           LinearLe(v_dot_v2, LinConst(0)), LinearLe(LinConst(0), v_dot_v2) >>
     \o Pair(cross_minus_v2(0), 2 * N) \o Pair(cross_minus_v2(1), 2 * N)
     \o Pair(cross_minus_v2(2), 2 * N)

\* The orthant pass of a box that touches the sphere in the single point
\* u = unique_intersection / N.  Every row is stated times N:
\*   v(i) - u(i) <= 2 c, v(i) - u(i) >= -2 c,
\*   u . v1 <= c, -c <= u . v1, u . v2 <= c, -c <= u . v2,
\*   (u x v1)(i) - v2(i) <= 2 c, (u x v1)(i) - v2(i) >= -2 c,
\* with u reflected into the orthant and c = orthant_c_sum.
McCormickPointRows(unique_intersection, N, o, orthant_c_sum, v, v1, v2) ==
  LET orthant_u == FlipVector(unique_intersection, o)
      v_minus_u(i) == LinPlus(LinScale(N, LinVar(v[i])), LinConst(-orthant_u[i]))
      v_dot_v1 == LinDot(orthant_u, v1)
      v_dot_v2 == LinDot(orthant_u, v2)
      v_cross_v1 == LinCross(orthant_u, v1)
      cross_minus_v2(i) == LinMinus(v_cross_v1[i], LinScale(N, LinVar(v2[i])))
      Pair(e, slack) == << LinearLe(e, LinScale(slack, orthant_c_sum)),
                           LinearGe(e, LinScale(-slack, orthant_c_sum)) >>
  IN Pair(v_minus_u(0), 2 * N) \o Pair(v_minus_u(1), 2 * N) \o Pair(v_minus_u(2), 2 * N)
     \o << LinearLe(v_dot_v1, LinScale(N, orthant_c_sum)),
           LinearLe(LinScale(-N, orthant_c_sum), v_dot_v1),
           LinearLe(v_dot_v2, LinScale(N, orthant_c_sum)),
           LinearLe(LinScale(-N, orthant_c_sum), v_dot_v2) >>
     \o Pair(cross_minus_v2(0), 2 * N) \o Pair(cross_minus_v2(1), 2 * N)
     \o Pair(cross_minus_v2(2), 2 * N)

\* sin(acos(d / den)) * den, for the intercepts d whose sine is rational over
\* den.
SinOfArcCos(d, den) == CHOOSE sin_theta \in 0..den : sin_theta * sin_theta = den * den - d * d

\* sin(acos(d / den) / 2) * den, for the intercepts d whose half-angle sine
\* is rational over den.
SinOfHalfArcCos(d, den) == CHOOSE sin_half \in 0..den : 2 * sin_half * sin_half = den * (den - d)

\* The norm bound added in every orthant.
NormBoundInEveryOrthant(o) == TRUE

\* if (o % 2 == 0) prog->AddLinearConstraint(orthant_normal, -1, 1, v)
NormBoundIsAdded(o) == o % 2 = 0

\* The orthant pass of a box with an intersection region.  The geometry is
\* what the calls before the orthant loop returned: the unit normal
\* geometry.normal / den and the intercept geometry.d / den of the half-space
\* relaxation, and the facets geometry.A / den, geometry.b / den.  Every row
\* is stated times den:
\*   orthant_a . v - b(i) <= (1 - b(i)) c for every facet i,
\*   -1 <= orthant_normal . v <= 1 in the orthants NormBoundIsAdded,
\*   orthant_normal . v1 <= sin(theta) + c, >= -sin(theta) - c, likewise v2,
\*   v2 - orthant_normal x v1 <= 2 sin(theta / 2) + 2 c, >= -2 sin(theta / 2) - 2 c,
\* with theta = acos(d) and c = orthant_c_sum.
McCormickRegionRows(geometry, o, orthant_c_sum, v, v1, v2) ==
  LET den == geometry.den
      orthant_normal == FlipVector(geometry.normal, o)
      sin_theta == SinOfArcCos(geometry.d, den)
      sin_half_theta == SinOfHalfArcCos(geometry.d, den)
      orthant_a(i) == Negated(FlipVector(Negated(geometry.A[i]), o))
      v2_minus_normal_cross_v1 ==
        [i \in Axes |-> LinMinus(LinScale(den, LinVar(v2[i])),
                                 LinCross(orthant_normal, v1)[i])]
  IN [i \in 1..Len(geometry.A) |->
        LinearLe(LinPlus(LinDot(orthant_a(i), v), LinConst(-geometry.b[i])),
                 LinScale(den - geometry.b[i], orthant_c_sum))]
     \o ConstraintIf(NormBoundIsAdded(o),
                     LinearRange(LinDot(orthant_normal, v), -den, den))
     \o << LinearLe(LinDot(orthant_normal, v1),
                    LinPlus(LinConst(sin_theta), LinScale(den, orthant_c_sum))),
           LinearGe(LinDot(orthant_normal, v1),
                    LinMinus(LinConst(-sin_theta), LinScale(den, orthant_c_sum))),
           LinearLe(LinDot(orthant_normal, v2),
                    LinPlus(LinConst(sin_theta), LinScale(den, orthant_c_sum))),
           LinearGe(LinDot(orthant_normal, v2),
                    LinMinus(LinConst(-sin_theta), LinScale(den, orthant_c_sum))) >>
     \o [i \in 1..3 |->
          LinearLe(v2_minus_normal_cross_v1[i - 1],
                   LinPlus(LinConst(2 * sin_half_theta),
                           LinScale(2 * den, orthant_c_sum)))]
     \o [i \in 1..3 |->
          LinearGe(v2_minus_normal_cross_v1[i - 1],
                   LinMinus(LinConst(-2 * sin_half_theta),
                            LinScale(2 * den, orthant_c_sum)))]

\* The constraints of the grid cell (xi, yi, zi) in the orthant o.  The
\* corners are (xi, yi, zi) / N and (xi + 1, yi + 1, zi + 1) / N, so a corner
\* norm is compared with 1 by comparing the squared integer norm with N^2.
\* A cell without intersection gets the row c(0) + c(1) + c(2) >= 1.  The
\* rows of one orthant of a cell that touches the sphere in one corner are
\* kept together in one entry.  The rows of a cell with an intersection
\* region have irrational coefficients; they are kept as one entry naming
\* the cell, the orthant and the activation sum c(0) + c(1) + c(2) that
\* gates them.
McCormickCellConstraints(v, B_i, v1, v2, N, gray_codes, xi, yi, zi, o) ==
  LET box_min == Vec3(xi, yi, zi)
      box_max == Vec3(xi + 1, yi + 1, zi + 1)
      orthant_c == CalcBoxBinaryExpressionInOrthant(xi, yi, zi, o, gray_codes, B_i, N)
      orthant_c_sum == LinPlus(orthant_c[0], LinPlus(orthant_c[1], orthant_c[2]))
  IN IF BoxIntersectsSphere(box_min, box_max, N)
       THEN IF MinOrMaxCornerOnSphere(box_min, box_max, N)
              THEN LET unique_intersection ==
                         IF SquaredNorm(box_min) = N * N THEN box_min ELSE box_max
                   IN [kind |-> "mccormick_point",
                       unique_intersection |-> unique_intersection,
                       orthant |-> o, orthant_c_sum |-> orthant_c_sum,
                       v |-> v, v1 |-> v1, v2 |-> v2,
                       rows |-> McCormickPointRows(unique_intersection, N, o,
                                                   orthant_c_sum, v, v1, v2)]
              ELSE [kind |-> "mccormick_region",
                    box_min |-> box_min, box_max |-> box_max,
                    pts |-> ComputeBoxEdgesAndSphereIntersection(box_min, box_max, N),
                    orthant |-> o, orthant_c_sum |-> orthant_c_sum,
                    norm_bound |-> NormBoundIsAdded(o),
                    v |-> v, v1 |-> v1, v2 |-> v2]
       ELSE LinearGe(orthant_c_sum, LinConst(1))

\* The loops over xi, yi, zi and, innermost, over the orthants o.  The
\* error thrown in a box leaves the loops before anything is added for the
\* box.
McCormickCells(v, B_i, v1, v2, N, gray_codes) ==
  [k \in 1..(8 * CellsCompleted(N)) |->
     LET cell == (k - 1) \div 8
     IN McCormickCellConstraints(v, B_i, v1, v2, N, gray_codes,
          cell \div (N * N), (cell \div N) % N, cell % N, (k - 1) % 8)]

\* The program as the call leaves it, by returning or by throwing.
AddMcCormickVectorConstraints(p, v, B_i, v1, v2, num_intervals_per_half_axis, gray_codes) ==
  AddConstraints(p, McCormickCells(v, B_i, v1, v2, num_intervals_per_half_axis, gray_codes))

\* Whether AddMcCormickVectorConstraints throws; the boxes and their
\* intersection points are the same for every vector.
McCormickVectorConstraintsThrow(N) == CellsCompleted(N) < N * N * N

\* One pass of the loop over the entries (i, j): lambda[i][j], its binary
\* digits B[k](i, j), and R(i, j) = phi_vec . lambda[i][j] (stated times N).
\* The loop state st carries the program, the matrices filled so far and
\* the position 3 * i + j of the loop.
RECURSIVE AddEntryEncodings(_, _, _)
AddEntryEncodings(st, Rm, N) ==
  IF st.entry >= 9 THEN st
  ELSE LET i == st.entry \div 3
           j == st.entry % 3
           num_lambda == NumLambda(N)
           p1 == NewVariables(st.prog, num_lambda, "lambda", "continuous")
           lambda_ij == [k \in 0..(num_lambda - 1) |-> Len(st.prog.vars) + 1 + k]
           sos2 == AddLogarithmicSOS2Constraint(p1, lambda_ij)
           phi_num == [k \in 0..(num_lambda - 1) |-> EnvelopeMinValue(k, N)[1] - N]
           p2 == AddConstraint(sos2.prog,
                   LinearEq(LinMinus(LinScale(N, LinVar(Rm[i][j])),
                                     LinComb(phi_num, lambda_ij, num_lambda)),
                            LinConst(0)))
       IN AddEntryEncodings(
            [prog |-> p2,
             lambda |-> [st.lambda EXCEPT ![i][j] = lambda_ij],
             B_digits |-> [st.B_digits EXCEPT ![i][j] = sos2.y],
             entry |-> st.entry + 1],
            Rm, N)

\* The same loop with the two companions of every vector exchanged.
RECURSIVE AddColumnAndRowConstraintsCompanionsExchanged(_, _, _, _, _, _)
AddColumnAndRowConstraintsCompanionsExchanged(p, Rm, B_digits, N, gray_codes, i) ==
  IF i >= 3 THEN p
  ELSE LET p1 == AddMcCormickVectorConstraints(p, Col(Rm, i),
                   [j \in Axes |-> B_digits[j][i]],
                   Col(Rm, (i + 2) % 3), Col(Rm, (i + 1) % 3), N, gray_codes)
           p2 == AddMcCormickVectorConstraints(p1, Row(Rm, i),
                   [j \in Axes |-> B_digits[i][j]],
                   Row(Rm, (i + 2) % 3), Row(Rm, (i + 1) % 3), N, gray_codes)
       IN IF McCormickVectorConstraintsThrow(N) THEN p1
          ELSE AddColumnAndRowConstraintsCompanionsExchanged(p2, Rm, B_digits, N,
                                                             gray_codes, i + 1)

\* The program after every call has completed, whether or not the call
\* that throws stopped the loop.
RECURSIVE AddColumnAndRowConstraintsAfterThrow(_, _, _, _, _, _)
AddColumnAndRowConstraintsAfterThrow(p, Rm, B_digits, N, gray_codes, i) ==
  IF i >= 3 THEN p
  ELSE LET p1 == AddMcCormickVectorConstraints(p, Col(Rm, i),
                   [j \in Axes |-> B_digits[j][i]],
                   Col(Rm, (i + 1) % 3), Col(Rm, (i + 2) % 3), N, gray_codes)
           p2 == AddMcCormickVectorConstraints(p1, Row(Rm, i),
                   [j \in Axes |-> B_digits[i][j]],
                   Row(Rm, (i + 1) % 3), Row(Rm, (i + 2) % 3), N, gray_codes)
       IN AddColumnAndRowConstraintsAfterThrow(p2, Rm, B_digits, N, gray_codes, i + 1)

\* One pass of the loop over the columns and rows i.  A call that throws
\* ends the loop: the first call does when any does.
RECURSIVE AddColumnAndRowConstraints(_, _, _, _, _, _)
AddColumnAndRowConstraints(p, Rm, B_digits, N, gray_codes, i) ==
  IF i >= 3 THEN p
  ELSE LET p1 == AddMcCormickVectorConstraints(p, Col(Rm, i),
                   [j \in Axes |-> B_digits[j][i]],
                   Col(Rm, (i + 1) % 3), Col(Rm, (i + 2) % 3), N, gray_codes)
           p2 == AddMcCormickVectorConstraints(p1, Row(Rm, i),
                   [j \in Axes |-> B_digits[i][j]],
                   Row(Rm, (i + 1) % 3), Row(Rm, (i + 2) % 3), N, gray_codes)
       IN IF McCormickVectorConstraintsThrow(N) THEN p1
          ELSE AddColumnAndRowConstraints(p2, Rm, B_digits, N, gray_codes, i + 1)

\* One pass of the loop that adds the unit-length rows of column i and
\* of row i.
AddUnitLengthConstraintsOfIndex(p, phi_num, N, lambda, i) ==
  LET p1 == AddUnitLengthConstraintWithLogarithmicSOS2(
              p, phi_num, N, lambda[0][i], lambda[1][i], lambda[2][i])
  IN AddUnitLengthConstraintWithLogarithmicSOS2(
              p1, phi_num, N, lambda[i][0], lambda[i][1], lambda[i][2])

AddUnitLengthConstraints(p, phi_num, N, lambda) ==
  AddUnitLengthConstraintsOfIndex(
    AddUnitLengthConstraintsOfIndex(
      AddUnitLengthConstraintsOfIndex(p, phi_num, N, lambda, 0),
      phi_num, N, lambda, 1),
    phi_num, N, lambda, 2)

\* B[k](j, i) = B_ij(k): the digit matrices filled the wrong way round.
DigitMatricesTransposed(B_digits, num_digits) ==
  [k \in 0..(num_digits - 1) |->
     [i \in Axes |-> [j \in Axes |-> B_digits[j][i][k]]]]

\* B[k](i, j) = B_ij(k) for k < num_digits.
DigitMatrices(B_digits, num_digits) ==
  [k \in 0..(num_digits - 1) |->
     [i \in Axes |-> [j \in Axes |-> B_digits[i][j][k]]]]

\* The constructor with the demand on num_intervals_per_half_axis made
\* after the loop over the entries.
McCormickDemandAfterEncodings(p, Rm, num_intervals_per_half_axis, limits) ==
  LET none == [i \in Axes |-> [j \in Axes |-> <<>>]]
      enc == AddEntryEncodings(
               [prog |-> p, lambda |-> none, B_digits |-> none, entry |-> 0],
               Rm, num_intervals_per_half_axis)
  IN [aborted |-> TRUE, thrown |-> FALSE, prog |-> enc.prog, B |-> <<>>,
      gray_codes |-> <<>>, phi_vec |-> <<>>]

\* DRAKE_DEMAND(pts.size() >= 3) fails for a cell with an intersection
\* region.
IntersectionDemandFails(p) ==
  \E k \in 1..Len(p.cons) :
    p.cons[k].kind = "mccormick_region" /\ ~(Len(p.cons[k].pts) >= 3)

\* The result: whether DRAKE_DEMAND aborted the call, whether the call
\* threw "The points are almost colinear.", the program, the returned
\* matrices B[k] (none when the call throws), and the table of Gray codes
\* and the breakpoints phi_vec (times N) the call used.
AddRotationMatrixMcCormickEnvelopeMilpConstraints(p, Rm, num_intervals_per_half_axis, limits) ==
  IF ~(num_intervals_per_half_axis >= 1)
    THEN [aborted |-> TRUE, thrown |-> FALSE, prog |-> p, B |-> <<>>, gray_codes |-> <<>>,
          phi_vec |-> <<>>]
    ELSE
      LET N == num_intervals_per_half_axis
          num_lambda == NumLambda(N)
          phi_vec == [k \in 0..(num_lambda - 1) |-> EnvelopeMinValue(k, N)[1] - N]
          num_digits == NumDigits(num_lambda)
          codes == CalculateReflectedGrayCodes(num_digits)
          none == [i \in Axes |-> [j \in Axes |-> <<>>]]
          enc == AddEntryEncodings(
                   [prog |-> p, lambda |-> none, B_digits |-> none, entry |-> 0], Rm, N)
          B == DigitMatrices(enc.B_digits, num_digits)
          p1 == AddNotInSameOrOppositeOrthantConstraint(enc.prog, B[0], N)
          p2 == AddNotInSameOrOppositeOrthantConstraint(p1, Transpose(B[0]), N)
          p3 == AddBoundingBoxConstraintsImpliedByRollPitchYawLimitsToBinary(p2, B[0], limits)
          p4 == AddUnitLengthConstraints(p3, phi_vec, N, enc.lambda)
          p5 == AddColumnAndRowConstraints(p4, Rm, enc.B_digits, N, codes, 0)
      IN [aborted |-> IntersectionDemandFails(p5),
          thrown |-> McCormickVectorConstraintsThrow(N), prog |-> p5,
          B |-> IF McCormickVectorConstraintsThrow(N) THEN <<>> ELSE B,
          gray_codes |-> codes, phi_vec |-> phi_vec]

----------------------------------------------------------------------------
(* Substituting values into constraints.  A value is val[id] / den.        *)

RECURSIVE SumTerms(_, _, _)
SumTerms(terms, val, n) ==
  IF n > Len(terms) THEN 0
  ELSE terms[n][1] * val[terms[n][2]] + SumTerms(terms, val, n + 1)

\* den times the value of the linear expression e.
EvalLin(e, val, den) == SumTerms(e.terms, val, 1) + e.const * den

\* lb <= e <= ub, for the bounds that are present.
SatLinear(c, val, den) ==
  LET x == EvalLin(c.e, val, den)
  IN /\ c.has_lb => c.lb * den <= x
     /\ c.has_ub => x <= c.ub * den

SatBoundingBox(c, val, den) ==
  \A k \in 1..Len(c.xs) : c.lb * den <= val[c.xs[k]] /\ val[c.xs[k]] <= c.ub * den

\* z(1)^2 + z(2)^2 + z(3)^2 <= z(0)^2.
SatLorentzCone(c, val, den) ==
  LET z == [i \in Axes |-> EvalLin(c.z[i], val, den)]
  IN SquaredNorm(z) <= c.z0_squared * den * den

\* z = A x + b; z(0) z(1) >= z(2)^2 + z(3)^2 + z(4)^2, z(0), z(1) >= 0.
SatRotatedLorentzCone(c, val, den) ==
  LET z == [k \in 0..4 |->
              c.A[k][0] * val[c.x[0]] + c.A[k][1] * val[c.x[1]]
              + c.A[k][2] * val[c.x[2]] + c.b[k] * den]
  IN /\ z[0] >= 0
     /\ z[1] >= 0
     /\ z[0] * z[1] >= z[2] * z[2] + z[3] * z[3] + z[4] * z[4]

\* The elements of a set of integers in increasing order.
RECURSIVE SortedSeq(_)
SortedSeq(S) ==
  IF S = {} THEN <<>>
  ELSE LET m == CHOOSE x \in S : \A y \in S : x <= y
       IN <<m>> \o SortedSeq(S \ {m})

\* The sequence s without its n-th element.
Without(s, n) == [k \in 1..(Len(s) - 1) |-> IF k < n THEN s[k] ELSE s[k + 1]]

\* Determinant of the submatrix of M with the given rows and columns.
RECURSIVE Det(_, _, _)
Det(M, rs, cs) ==
  IF Len(rs) = 0 THEN 1
  ELSE LET Term(n) == (IF n % 2 = 1 THEN 1 ELSE -1) * M[rs[1]][cs[n]]
                      * Det(M, Tail(rs), Without(cs, n))
           Sum[n \in 0..Len(cs)] == IF n = 0 THEN 0 ELSE Term(n) + Sum[n - 1]
       IN Sum[Len(cs)]

\* A symmetric matrix is positive semidefinite iff every principal minor
\* is non-negative.
PositiveSemidefinite4(M) ==
  \A S \in (SUBSET (0..3)) \ {{}} : Det(M, SortedSeq(S), SortedSeq(S)) >= 0

\* den * (F(0) + sum_k x(k) F(k)) is positive semidefinite.
SatLinearMatrixInequality(c, val, den) ==
  LET Sum[k \in 0..Len(c.x)] ==
        IF k = 0 THEN [i \in 0..3 |-> [j \in 0..3 |-> den * c.F[1][i][j]]]
        ELSE [i \in 0..3 |-> [j \in 0..3 |->
                Sum[k - 1][i][j] + val[c.x[k]] * c.F[k + 1][i][j]]]
  IN PositiveSemidefinite4(Sum[Len(c.x)])

Sat(c, val, den) ==
  CASE c.kind = "linear" -> SatLinear(c, val, den)
    [] c.kind = "bbox" -> SatBoundingBox(c, val, den)
    [] c.kind = "lorentz" -> SatLorentzCone(c, val, den)
    [] c.kind = "rotated_lorentz" -> SatRotatedLorentzCone(c, val, den)
    [] c.kind = "lmi" -> SatLinearMatrixInequality(c, val, den)

\* The rotation matrix of the quaternion (a, b, c, d), as an integer matrix
\* over the denominator a^2 + b^2 + c^2 + d^2.
QuaternionToRotation(a, b, c, d) ==
  [den |-> a * a + b * b + c * c + d * d,
   num |-> [i \in Axes |-> [j \in Axes |->
     CASE i = 0 /\ j = 0 -> a * a + b * b - c * c - d * d
       [] i = 0 /\ j = 1 -> 2 * (b * c - a * d)
       [] i = 0 /\ j = 2 -> 2 * (b * d + a * c)
       [] i = 1 /\ j = 0 -> 2 * (b * c + a * d)
       [] i = 1 /\ j = 1 -> a * a - b * b + c * c - d * d
       [] i = 1 /\ j = 2 -> 2 * (c * d - a * b)
       [] i = 2 /\ j = 0 -> 2 * (b * d - a * c)
       [] i = 2 /\ j = 1 -> 2 * (c * d + a * b)
       [] i = 2 /\ j = 2 -> a * a - b * b - c * c + d * d]]]

\* The rotation matrices substituted into the constraints.
Rotations ==
  {QuaternionToRotation(q[1], q[2], q[3], q[4]) :
     q \in {x \in (-MaxQuat..MaxQuat) \X (-MaxQuat..MaxQuat)
                  \X (-MaxQuat..MaxQuat) \X (-MaxQuat..MaxQuat) :
              x # <<0, 0, 0, 0>>}}

\* The assignment that gives the variables of Rm the entries of rot and 0
\* to every other variable of p.
SubstituteRotation(p, Rm, rot) ==
  [id \in 1..Len(p.vars) |->
     IF \E i \in Axes, j \in Axes : Rm[i][j] = id
       THEN LET ij == CHOOSE ij \in Axes \X Axes : Rm[ij[1]][ij[2]] = id
            IN rot.num[ij[1]][ij[2]]
       ELSE 0]

----------------------------------------------------------------------------
(* Triangles and planes.  A point given to these functions has integer     *)
(* coordinates over the denominator den.  A unit normal is a direction n   *)
(* with integer components together with n_norm_sq, the square of its      *)
(* length: the normal is n / sqrt(n_norm_sq), and the intercept d stands   *)
(* for d / (den * sqrt(n_norm_sq)).                                        *)

\* Points with coordinates 0..MaxCoord are given to the triangle functions.
MaxCoord == 1

\* n_norm < 1E-3 for n = cross / den^2: the integer cross has
\* cross . cross * 1000^2 < den^4.
AlmostColinear(cross, den) ==
  SquaredNorm(cross) <=
    (den * den * den * den - 1) \div (AlmostColinearInverse * AlmostColinearInverse)

\* The normal left as the cross product gives it.
OutwardSignNeverFlipped(n) == n

\* if (n->sum() < 0) (*n) *= -1
OutwardSign(n) == IF n[0] + n[1] + n[2] < 0 THEN Negated(n) ELSE n

ComputeTriangleOutwardNormal(pt0, pt1, pt2, den) ==
  IF \E i \in Axes : pt0[i] < 0 \/ pt1[i] < 0 \/ pt2[i] < 0
    THEN [status |-> "abort"]
  ELSE LET cross == Cross(Minus(pt2, pt0), Minus(pt1, pt0))
           n == OutwardSign(cross)
       IN IF AlmostColinear(cross, den) THEN [status |-> "throw"]
          ELSE IF \E i \in Axes : n[i] < 0 THEN [status |-> "abort"]
          ELSE [status |-> "ok", n |-> n, n_norm_sq |-> SquaredNorm(n),
                d |-> Dot(pt0, n)]


\* abs(n . pts[i] - d) > 1E-10.  With n = t.n / sqrt(t.n_norm_sq) both sides
\* have the denominator den * sqrt(t.n_norm_sq), which is far below 1E10 for
\* every value the model holds, so a non-zero integer numerator exceeds the
\* tolerance and a zero one does not.
OffPlane(t, pt) == Dot(t.n, pt) # t.d

AreAllVerticesCoPlanar(pts, den) ==
  IF Len(pts) < 3 THEN [status |-> "abort"]
  ELSE LET t == ComputeTriangleOutwardNormal(pts[1], pts[2], pts[3], den)
       IN IF t.status # "ok" THEN t
          ELSE IF \E i \in 4..Len(pts) : OffPlane(t, pts[i])
            THEN [status |-> "ok", pts_on_plane |-> FALSE,
                  n |-> Vec3(0, 0, 0), n_norm_sq |-> 1, d |-> 0]
          ELSE [status |-> "ok", pts_on_plane |-> TRUE,
                n |-> t.n, n_norm_sq |-> t.n_norm_sq, d |-> t.d]

\* (*n)(0) > 0 && (*n)(1) > 0 && (*n)(2) > 0, and *d > 0 && *d < 1 for the
\* intercept d / (den * sqrt(n_norm_sq)).
StrictlyPositiveNormalAndInterceptInUnitInterval(n, n_norm_sq, d, den) ==
  /\ \A i \in Axes : n[i] > 0
  /\ d > 0
  /\ d * d < den * den * n_norm_sq

\* solution is what GetSolution gives for n_var and d_var after Solve().
ComputeHalfSpaceRelaxationForBoxSphereIntersection(pts, den, solution) ==
  LET plane == AreAllVerticesCoPlanar(pts, den)
  IN IF plane.status # "ok" THEN [status |-> plane.status]
     ELSE IF plane.pts_on_plane
       THEN [status |-> "ok", pts_on_plane |-> TRUE,
             n |-> plane.n, n_norm_sq |-> plane.n_norm_sq, d |-> plane.d]
     ELSE IF StrictlyPositiveNormalAndInterceptInUnitInterval(
               solution.n, solution.n_norm_sq, solution.d, den)
       THEN [status |-> "ok", pts_on_plane |-> FALSE,
             n |-> solution.n, n_norm_sq |-> solution.n_norm_sq, d |-> solution.d]
     ELSE [status |-> "abort"]

\* The triangles (i, j, k), i < j < k, in the order the three loops visit
\* them.
Triangles(num_pts) ==
  SelectSeq([x \in 1..(num_pts * num_pts * num_pts) |->
               <<((x - 1) \div (num_pts * num_pts)) + 1,
                 (((x - 1) \div num_pts) % num_pts) + 1,
                 ((x - 1) % num_pts) + 1>>],
            LAMBDA t : t[1] < t[2] /\ t[2] < t[3])

\* A facet is accepted whatever the other vertices are.
IsValidHalfspaceAlways(c, pts, others) == TRUE

\* No other vertex has c . pts[l] < d - 1E-10; the tolerance is below the
\* resolution of the integer numerators, as in OffPlane.
IsValidHalfspace(c, pts, others) == \A l \in others : ~(Dot(c.n, pts[l]) < c.d)

\* Every plane is returned as its own facet, not negated.
FacetNotNegated(c) == [n |-> c.n, n_norm_sq |-> c.n_norm_sq, d |-> c.d]

\* A->row = -c.transpose(), b = -d
Facet(c) == [n |-> Negated(c.n), n_norm_sq |-> c.n_norm_sq, d |-> -c.d]

ComputeInnerFacetsForBoxSphereIntersection(pts, den) ==
  IF \E l \in 1..Len(pts) : \E i \in Axes : pts[l][i] < 0
    THEN [status |-> "abort"]
  ELSE LET triangles == Triangles(Len(pts))
           c == [x \in 1..Len(triangles) |->
                   ComputeTriangleOutwardNormal(pts[triangles[x][1]], pts[triangles[x][2]],
                                                pts[triangles[x][3]], den)]
           failed == {x \in 1..Len(triangles) : c[x].status # "ok"}
           valid == SelectSeq([x \in 1..Len(triangles) |-> x],
                              LAMBDA x : IsValidHalfspace(c[x], pts,
                                           (1..Len(pts)) \ {triangles[x][1], triangles[x][2],
                                                            triangles[x][3]}))
       IN IF failed # {}
            THEN [status |-> c[CHOOSE x \in failed : \A y \in failed : x <= y].status]
          ELSE [status |-> "ok", facets |-> [r \in 1..Len(valid) |-> Facet(c[valid[r]])]]

----------------------------------------------------------------------------
(* Sparse matrices.  An Eigen::SparseMatrix<double> in compressed form is  *)
(* column-major: valuePtr and innerIndexPtr hold the stored values and     *)
(* their rows, column by column with increasing rows inside a column, and  *)
(* outerIndexPtr[j] is where column j starts.  Arrays are zero-based.      *)

\* Test matrices have at most MaxDim rows and MaxDim columns.
MaxDim == 2

\* The compressed matrix with the given stored entries, a function from
\* <<row, col>> to the value.
CompressedMatrix(rows, cols, entries) ==
  LET order == SortedSeq({rc[2] * rows + rc[1] : rc \in DOMAIN entries})
      nnz == Len(order)
  IN [rows |-> rows, cols |-> cols,
      valuePtr |-> [k \in 0..(nnz - 1) |->
                      entries[<<order[k + 1] % rows, order[k + 1] \div rows>>]],
      innerIndexPtr |-> [k \in 0..(nnz - 1) |-> order[k + 1] % rows],
      outerIndexPtr |-> [j \in 0..cols |->
                           Cardinality({rc \in DOMAIN entries : rc[2] < j})]]

nonZeros(A) == A.outerIndexPtr[A.cols]

\* A.coeff(row, col)
coeff(A, row, col) ==
  LET stored == {k \in A.outerIndexPtr[col]..(A.outerIndexPtr[col + 1] - 1) :
                   A.innerIndexPtr[k] = row}
  IN IF stored = {} THEN 0 ELSE A.valuePtr[CHOOSE k \in stored : TRUE]

ConstructScsAmatrix(A) ==
  [m |-> A.rows,
   n |-> A.cols,
   x |-> [k \in 0..(nonZeros(A) - 1) |-> A.valuePtr[k]],
   i |-> [k \in 0..(nonZeros(A) - 1) |-> A.innerIndexPtr[k]],
   p |-> [k \in 0..A.cols |-> A.outerIndexPtr[k]]]

\* The entries inserted with row and column exchanged.
InsertedEntriesTransposed(scs_A) ==
  LET at == {<<j, k>> : j \in 0..(scs_A.n - 1), k \in 0..(scs_A.p[scs_A.n] - 1)}
      inserted == {jk \in at : scs_A.p[jk[1]] <= jk[2] /\ jk[2] < scs_A.p[jk[1] + 1]}
  IN [rc \in {<<jk[1], scs_A.i[jk[2]]>> : jk \in inserted} |->
        scs_A.x[CHOOSE k \in 0..(scs_A.p[scs_A.n] - 1) :
                  <<rc[1], k>> \in inserted /\ scs_A.i[k] = rc[2]]]

\* A.insert(scs_A.i[i], j) = scs_A.x[i] for every j and every i of column j.
InsertedEntries(scs_A) ==
  LET at == {<<j, k>> : j \in 0..(scs_A.n - 1), k \in 0..(scs_A.p[scs_A.n] - 1)}
      inserted == {jk \in at : scs_A.p[jk[1]] <= jk[2] /\ jk[2] < scs_A.p[jk[1] + 1]}
  IN [rc \in {<<scs_A.i[jk[2]], jk[1]>> : jk \in inserted} |->
        scs_A.x[CHOOSE k \in 0..(scs_A.p[scs_A.n] - 1) :
                  <<rc[2], k>> \in inserted /\ scs_A.i[k] = rc[1]]]

ScsAmatrixToEigenSparseMatrix(scs_A) ==
  CompressedMatrix(scs_A.m, scs_A.n, InsertedEntries(scs_A))

----------------------------------------------------------------------------
(* The root node of the branch and bound.  Numbers are kept in tenths, so  *)
(* that 3.1 and 1.2 are the integers 31 and 12.                            *)

Tenths(x) == 10 * x

RECURSIVE SumOfTriplets(_, _, _)
SumOfTriplets(triplets, rc, k) ==
  IF k = 0 THEN 0
  ELSE (IF <<triplets[k][1], triplets[k][2]>> = rc THEN triplets[k][3] ELSE 0)
         + SumOfTriplets(triplets, rc, k - 1)

\* setFromTriplets adds up the triplets of one position.
setFromTriplets(rows, cols, triplets) ==
  CompressedMatrix(rows, cols,
    [rc \in {<<triplets[k][1], triplets[k][2]>> : k \in DOMAIN triplets} |->
       SumOfTriplets(triplets, rc, Len(triplets))])

\* The fixture: A_, b_, c_ of TestScsNode, with one equality row (cone_->f).
A_triplets ==
  <<<<0, 0, Tenths(1)>>, <<0, 1, Tenths(1)>>, <<0, 3, Tenths(2)>>,
    <<1, 1, Tenths(-1)>>, <<1, 2, 31>>,
    <<2, 0, Tenths(-1)>>, <<2, 2, Tenths(1)>>, <<2, 3, 12>>>>

A_ == setFromTriplets(3, 4, A_triplets)

b_ == (0 :> Tenths(2) @@ 1 :> Tenths(-1) @@ 2 :> Tenths(5))

c_ == (0 :> Tenths(1) @@ 1 :> Tenths(2) @@ 2 :> Tenths(0) @@ 3 :> Tenths(-3))

cone_ == [f |-> 1, l |-> 2]

\* The visiting orders of an unordered set of indices.
IterationOrders(indices) ==
  {s \in [1..Cardinality(indices) -> indices] :
     \A k1 \in DOMAIN s, k2 \in DOMAIN s : s[k1] = s[k2] => k1 = k2}

\* The root node: the rows of A with, after the cone.f equality rows, the
\* rows -y + s1 = 0 and y + s2 = 1 of every binary variable y, in the order
\* `visited` in which the node goes through its set of indices.
ScsNode(scs_A, b, c, cone, visited, cost_constant) ==
  LET num_binary == Len(visited)
      A == ScsAmatrixToEigenSparseMatrix(scs_A)
      original == {<<row, col>> \in (0..(scs_A.m - 1)) \X (0..(scs_A.n - 1)) :
                     coeff(A, row, col) # 0}
      shifted(row) == IF row < cone.f THEN row ELSE row + 2 * num_binary
      relaxed ==
        [rc \in {<<shifted(o[1]), o[2]>> : o \in original}
                  \cup {<<cone.f + 2 * (k - 1), visited[k]>> : k \in 1..num_binary}
                  \cup {<<cone.f + 2 * (k - 1) + 1, visited[k]>> : k \in 1..num_binary} |->
           IF rc[1] < cone.f THEN coeff(A, rc[1], rc[2])
           ELSE IF rc[1] >= cone.f + 2 * num_binary
             THEN coeff(A, rc[1] - 2 * num_binary, rc[2])
           ELSE IF (rc[1] - cone.f) % 2 = 0 THEN Tenths(-1) ELSE Tenths(1)]
  IN [A |-> ConstructScsAmatrix(
              CompressedMatrix(scs_A.m + 2 * num_binary, scs_A.n, relaxed)),
      b |-> [row \in 0..(scs_A.m + 2 * num_binary - 1) |->
               IF row < cone.f THEN b[row]
               ELSE IF row >= cone.f + 2 * num_binary THEN b[row - 2 * num_binary]
               ELSE IF (row - cone.f) % 2 = 0 THEN Tenths(0) ELSE Tenths(1)],
      c |-> c,
      cost_constant |-> cost_constant,
      binary_var_indices |-> {visited[k] : k \in 1..num_binary},
      y_index |-> -1]

IsBinaryVarIndicesEqual(indices1, indices2) ==
  /\ Cardinality(indices1) = Cardinality(indices2)
  /\ \A it1 \in indices1 : it1 \in indices2

\* Whether every expectation of IsSameRelaxedConstraint is met (tol is 0).
IsSameRelaxedConstraint(A1, A2, b1, b2, num_linear_equality_constraint, num_binary_vars) ==
  /\ A1.m = A2.m
  /\ A1.n = A2.n
  /\ \A i \in 0..(A1.m - 1) : b1[i] = b2[i]
  /\ LET A1_sparse == ScsAmatrixToEigenSparseMatrix(A1)
         A2_sparse == ScsAmatrixToEigenSparseMatrix(A2)
         relaxed_rows == {num_linear_equality_constraint + 2 * k : k \in 0..(num_binary_vars - 1)}
         columns_of(A_sparse, i) == {j \in 0..(A1.n - 1) : coeff(A_sparse, i, j) = Tenths(-1)}
         well_formed(A_sparse) ==
           \A i \in relaxed_rows :
             /\ \A j \in 0..(A1.n - 1) :
                  /\ coeff(A_sparse, i, j) = 0 => coeff(A_sparse, i + 1, j) = 0
                  /\ coeff(A_sparse, i, j) = Tenths(-1)
                       => /\ coeff(A_sparse, i + 1, j) = Tenths(1)
                          /\ \A earlier \in relaxed_rows :
                               earlier < i => j \notin columns_of(A_sparse, earlier)
             /\ Cardinality(columns_of(A_sparse, i)) = 1
         indices(A_sparse) == UNION {columns_of(A_sparse, i) : i \in relaxed_rows}
     IN /\ \A i \in 0..(num_linear_equality_constraint - 1), j \in 0..(A1.n - 1) :
             coeff(A1_sparse, i, j) = coeff(A2_sparse, i, j)
        /\ \A i \in (num_linear_equality_constraint + 2 * num_binary_vars)..(A1.m - 1),
              j \in 0..(A1.n - 1) :
             coeff(A1_sparse, i, j) = coeff(A2_sparse, i, j)
        /\ well_formed(A1_sparse)
        /\ well_formed(A2_sparse)
        /\ IsBinaryVarIndicesEqual(indices(A1_sparse), indices(A2_sparse))

\* The expected rows of the binary variables put after all rows of A_.
ExpectedRelaxedRowAtEnd(binary_var_count) == 3 + binary_var_count * 2

\* root_A_triplets.emplace_back(1 + binary_var_count * 2, *it, -1)
ExpectedRelaxedRow(binary_var_count) == 1 + binary_var_count * 2

\* The expected system that TestConstructorWithBinaryVarIndices builds,
\* going through binary_var_indices in the order `iterated`.
ExpectedRoot(iterated) ==
  LET size == Len(iterated)
      positions == SelectSeq([x \in 1..(A_.rows * A_.cols) |->
                                <<(x - 1) \div A_.cols, (x - 1) % A_.cols>>],
                             LAMBDA ij : coeff(A_, ij[1], ij[2]) # 0)
      root_A_triplets ==
        [x \in 1..Len(positions) |->
           <<positions[x][1] + (IF positions[x][1] >= 1 THEN 2 * size ELSE 0),
             positions[x][2], coeff(A_, positions[x][1], positions[x][2])>>]
        \o [x \in 1..(2 * size) |->
              IF x % 2 = 1
                THEN <<ExpectedRelaxedRow((x - 1) \div 2), iterated[(x + 1) \div 2], Tenths(-1)>>
                ELSE <<ExpectedRelaxedRow((x - 1) \div 2) + 1, iterated[x \div 2], Tenths(1)>>]
  IN [root_A |-> setFromTriplets(A_.rows + 2 * size, A_.cols, root_A_triplets),
      root_b |-> [i \in 0..(2 + 2 * size) |->
                    IF i = 0 THEN b_[0]
                    ELSE IF i = 2 * size + 1 THEN b_[1]
                    ELSE IF i = 2 * size + 2 THEN b_[2]
                    ELSE IF i % 2 = 1 THEN Tenths(0) ELSE Tenths(1)]]

\* Whether every expectation of TestConstructorWithBinaryVarIndices is met
\* by the node `root`.
TestConstructorWithBinaryVarIndices(root, iterated) ==
  LET size == Len(iterated)
      expected == ExpectedRoot(iterated)
      scs_A_ == ConstructScsAmatrix(A_)
  IN /\ root.y_index = -1
     /\ IsSameRelaxedConstraint(ConstructScsAmatrix(expected.root_A), root.A,
                                expected.root_b, root.b, 1, size)
     /\ \A i \in 0..(scs_A_.m + 2 * size - 1) : expected.root_b[i] = root.b[i]
     /\ \A i \in 0..3 : c_[i] = root.c[i]
     /\ root.cost_constant = Tenths(1)
     /\ IsBinaryVarIndicesEqual(root.binary_var_indices, {iterated[k] : k \in 1..size})

----------------------------------------------------------------------------
(* IRB140AnalyticalKinematics::inverse_kinematics: the candidate queue.    *)

\* The joint angles the stage solvers return, as indices of angles within
\* the joint limits.
JointValues == {0, 1}

\* An entry of a joint vector that no stage has written:
\* "Eigen::Matrix<double, 6, 1> q;" leaves the six entries uninitialized.
Unassigned == -1

NewJointVector == [j \in 0..5 |-> Unassigned]

\* The lists q1, q2, q3 and q456 return for a pose. q456 reads q2 and q3
\* only through q2 + q3.
StageSolvers ==
  [q1 : {<<>>, <<0>>, <<1, 0>>},
   q2 : [JointValues -> {<<>>, <<1>>, <<0, 1>>}],
   q3 : [JointValues \X JointValues -> {<<>>, <<1, 1>>}],
   q456 : [JointValues \X (0..2) -> {<<>>, <<<<0, 1, 0>>, <<1, 0, 1>>>>}]]

\* The list the solver of a stage returns for the candidate q.
StageSolutions(q, stage, sol) ==
  CASE stage = 2 -> sol.q2[q[0]]
    [] stage = 3 -> sol.q3[<<q[0], q[1]>>]
    [] stage = 4 -> sol.q456[<<q[0], q[1] + q[2]>>]

\* The copy of q that the loop over a solver's list pushes for one solution.
WithSolution(q, stage, val) ==
  CASE stage = 2 -> [q EXCEPT ![1] = val]
    [] stage = 3 -> [q EXCEPT ![2] = val]
    [] stage = 4 -> [q EXCEPT ![3] = val[1], ![4] = val[2], ![5] = val[3]]

\* A candidate without a q456 solution is pushed back as it is.
PushedKeepingUnsolved(q, stage, sol) ==
  LET all == StageSolutions(q, stage, sol)
  IN IF all = <<>> /\ stage = 4 THEN <<q>>
     ELSE [k \in 1..Len(all) |-> WithSolution(q, stage, all[k])]

\* What one iteration of a stage's loop pushes for the popped candidate q.
Pushed(q, stage, sol) ==
  LET all == StageSolutions(q, stage, sol)
  IN [k \in 1..Len(all) |-> WithSolution(q, stage, all[k])]

\* The loop "for (int i = 0; i < q_all_size; ++i)" of a stage, with
\* remaining = q_all_size - i: front, pop, then push at the back.
RECURSIVE StageLoop(_, _, _, _)
StageLoop(q_all, remaining, stage, sol) ==
  IF remaining = 0 THEN q_all
  ELSE StageLoop(Tail(q_all) \o Pushed(Head(q_all), stage, sol),
                 remaining - 1, stage, sol)

\* The loop "while (!q_all.empty())" that moves the queue into the vector.
RECURSIVE DrainQueue(_, _)
DrainQueue(q_all, q_all_vec) ==
  IF q_all = <<>> THEN q_all_vec
  ELSE DrainQueue(Tail(q_all), Append(q_all_vec, Head(q_all)))

\* inverse_kinematics, with the queue after each stage.
inverse_kinematics(sol) ==
  LET after_q1 == [k \in 1..Len(sol.q1) |-> [NewJointVector EXCEPT ![0] = sol.q1[k]]]
      after_q2 == StageLoop(after_q1, Len(after_q1), 2, sol)
      after_q3 == StageLoop(after_q2, Len(after_q2), 3, sol)
      after_q456 == StageLoop(after_q3, Len(after_q3), 4, sol)
  IN [after_q1 |-> after_q1, after_q2 |-> after_q2, after_q3 |-> after_q3,
      after_q456 |-> after_q456, q_all_vec |-> DrainQueue(after_q456, <<>>)]

----------------------------------------------------------------------------
(* The callers.                                                            *)

Init ==
  /\ prog = EmptyProg
  /\ R = <<>>
  /\ pc = "init"
  /\ ret = [op |-> "none"]

CallNewRotationMatrixVars ==
  /\ pc = "init"
  /\ LET r == NewRotationMatrixVars(prog, "R")
     IN /\ prog' = r.prog
        /\ R' = r.R
  /\ pc' = "ready"
  /\ ret' = [op |-> "NewRotationMatrixVars", before |-> prog]

CallAddRotationMatrixOrthonormalSocpConstraint ==
  /\ pc = "ready"
  /\ prog' = AddRotationMatrixOrthonormalSocpConstraint(prog, R)
  /\ pc' = "done"
  /\ ret' = [op |-> "AddRotationMatrixOrthonormalSocpConstraint", before |-> prog]
  /\ UNCHANGED R

CallAddRotationMatrixSpectrahedralSdpConstraint ==
  /\ pc = "ready"
  /\ prog' = AddRotationMatrixSpectrahedralSdpConstraint(prog, R)
  /\ pc' = "done"
  /\ ret' = [op |-> "AddRotationMatrixSpectrahedralSdpConstraint", before |-> prog]
  /\ UNCHANGED R

CallAddBoundingBoxConstraintsImpliedByRollPitchYawLimits ==
  /\ pc = "ready"
  /\ \E limits \in RollPitchYawLimits :
       /\ prog' = AddBoundingBoxConstraintsImpliedByRollPitchYawLimits(prog, R, limits)
       /\ ret' = [op |-> "AddBoundingBoxConstraintsImpliedByRollPitchYawLimits",
                  limits |-> limits, before |-> prog]
  /\ pc' = "done"
  /\ UNCHANGED R

\* The caller creates the binary matrix B and passes it.
CallAddBoundingBoxConstraintsImpliedByRollPitchYawLimitsToBinary ==
  /\ pc = "ready"
  /\ \E limits \in RollPitchYawLimits :
       LET p1 == NewVariables(prog, 9, "B", "binary")
           Bm == Matrix3Ids(Len(prog.vars))
       IN /\ prog' = AddBoundingBoxConstraintsImpliedByRollPitchYawLimitsToBinary(
                       p1, Bm, limits)
          /\ ret' = [op |-> "AddBoundingBoxConstraintsImpliedByRollPitchYawLimitsToBinary",
                     limits |-> limits, B |-> Bm, before |-> p1]
  /\ pc' = "done"
  /\ UNCHANGED R

\* The caller creates the binary matrix B and passes it or its transpose.
CallAddNotInSameOrOppositeOrthantConstraint ==
  /\ pc = "ready"
  /\ \E N \in 1..MaxN, transposed \in BOOLEAN :
       LET p1 == NewVariables(prog, 9, "B", "binary")
           Bm == IF transposed THEN Transpose(Matrix3Ids(Len(prog.vars)))
                               ELSE Matrix3Ids(Len(prog.vars))
       IN /\ prog' = AddNotInSameOrOppositeOrthantConstraint(p1, Bm, N)
          /\ ret' = [op |-> "AddNotInSameOrOppositeOrthantConstraint",
                     N |-> N, B |-> Bm, before |-> p1]
  /\ pc' = "done"
  /\ UNCHANGED R

\* The limits a caller passes to the McCormick relaxation: none, one that
\* fixes a digit to 0, one that fixes a digit to 1, and all of them.
McCormickLimits ==
  {0, kPitch_0_to_PI, kPitch_NegPI_2_to_PI_2 + kYaw_NegPI_2_to_PI_2,
   kRoll_NegPI_2_to_PI_2 + kRoll_0_to_PI + kPitch_NegPI_2_to_PI_2 + kPitch_0_to_PI
   + kYaw_NegPI_2_to_PI_2 + kYaw_0_to_PI}

\* The coarsest grid that has a box whose intersection points are almost
\* colinear: the box (2, 3, 4) of N = 7, with three intersection points
\* whose cross product has the norm 0.00063.
GridWithAlmostColinearTriangle == 7

CallAddRotationMatrixMcCormickEnvelopeMilpConstraints ==
  /\ pc = "ready"
  /\ \E N \in (-1..MaxN) \cup {GridWithAlmostColinearTriangle}, limits \in McCormickLimits :
       \E r \in {AddRotationMatrixMcCormickEnvelopeMilpConstraints(prog, R, N, limits)} :
          /\ prog' = r.prog
          /\ ret' = [op |-> "AddRotationMatrixMcCormickEnvelopeMilpConstraints",
                     N |-> N, limits |-> limits, aborted |-> r.aborted,
                     thrown |-> r.thrown,
                     B |-> r.B, gray_codes |-> r.gray_codes, phi_vec |-> r.phi_vec,
                     before |-> prog]
  /\ pc' = "done"
  /\ UNCHANGED R

\* The assertion admits interval_idx = gray_codes.rows(), one past the last
\* row; what that read returns is arbitrary.
CallPickBinaryExpressionGivenInterval ==
  /\ pc = "init"
  /\ \E num_digits \in 1..NumDigits(NumLambda(MaxN)) :
       LET gray_codes == CalculateReflectedGrayCodes(num_digits)
           rows == Cardinality(DOMAIN gray_codes)
           Bits == [0..(num_digits - 1) -> {0, 1}]
       IN \E interval_idx \in 0..rows, b \in Bits :
            \E past_the_end \in IF interval_idx = rows THEN Bits
                                ELSE {[i \in 0..(num_digits - 1) |-> 0]} :
              LET memory == [i \in 0..rows |->
                               IF i < rows THEN gray_codes[i] ELSE past_the_end]
                  b_ids == [i \in 0..(num_digits - 1) |-> i + 1]
                  expr == PickBinaryExpressionGivenInterval(interval_idx, memory, b_ids)
              IN ret' = [op |-> "PickBinaryExpressionGivenInterval",
                         interval_idx |-> interval_idx, gray_codes |-> gray_codes,
                         b |-> b, past_the_end |-> past_the_end,
                         value |-> EvalLin(expr, [id \in 1..num_digits |-> b[id - 1]], 1)]
  /\ pc' = "done"
  /\ UNCHANGED <<prog, R>>

\* CalcBoxBinaryExpressionInOrthant for every box and orthant of the grid,
\* as the loops of AddMcCormickVectorConstraints call it, with the digits of
\* the three axes at the values b; `active` are the boxes and orthants whose
\* three expressions are all 0 there.
CallCalcBoxBinaryExpressionInOrthant ==
  /\ pc = "init"
  /\ \E N \in 1..MaxN :
       LET num_digits == NumDigits(NumLambda(N))
           gray_codes == CalculateReflectedGrayCodes(num_digits)
           B_vec == [axis \in Axes |-> [k \in 0..(num_digits - 1) |-> axis * num_digits + k + 1]]
       IN \E b \in [Axes -> [0..(num_digits - 1) -> {0, 1}]] :
            LET val == [id \in 1..(3 * num_digits) |->
                          b[(id - 1) \div num_digits][(id - 1) % num_digits]]
                active ==
                  {box \in (0..(N - 1)) \X (0..(N - 1)) \X (0..(N - 1)) \X (0..7) :
                     LET c == CalcBoxBinaryExpressionInOrthant(
                                  box[1], box[2], box[3], box[4], gray_codes, B_vec, N)
                     IN \A axis \in Axes : EvalLin(c[axis], val, 1) = 0}
            IN ret' = [op |-> "CalcBoxBinaryExpressionInOrthant", N |-> N,
                       gray_codes |-> gray_codes, b |-> b, active |-> active]
  /\ pc' = "done"
  /\ UNCHANGED <<prog, R>>

CallPositiveAxisIntervalIndexToFullAxisIntervalIndex ==
  /\ pc = "init"
  /\ \E N \in 1..MaxN, orthant \in 0..7 :
       \E interval_idx \in [Axes -> 0..(N - 1)] :
         ret' = [op |-> "PositiveAxisIntervalIndexToFullAxisIntervalIndex",
                 N |-> N, orthant |-> orthant, interval_idx |-> interval_idx,
                 mask |-> OrthantToAxisMask(orthant),
                 full |-> PositiveAxisIntervalIndexToFullAxisIntervalIndex(
                            interval_idx, orthant, N)]
  /\ pc' = "done"
  /\ UNCHANGED <<prog, R>>

\* The boxes on the grid of denominator den that meet the function's
\* assertions: 0 <= bmin < bmax, |bmin| <= 1 <= |bmax|.
GridBoxes(den) ==
  {b \in [bmin : [Axes -> 0..(den - 1)], bmax : [Axes -> 1..den]] :
     /\ \A axis \in Axes : b.bmin[axis] < b.bmax[axis]
     /\ SquaredNorm(b.bmin) <= den * den
     /\ SquaredNorm(b.bmax) >= den * den}

CallComputeBoxEdgesAndSphereIntersection ==
  /\ pc = "init"
  /\ \E den \in 1..MaxN :
       \E box \in GridBoxes(den) :
         ret' = [op |-> "ComputeBoxEdgesAndSphereIntersection",
                 den |-> den, bmin |-> box.bmin, bmax |-> box.bmax,
                 intersections |->
                   ComputeBoxEdgesAndSphereIntersection(box.bmin, box.bmax, den)]
  /\ pc' = "done"
  /\ UNCHANGED <<prog, R>>

\* The points ComputeTriangleOutwardNormal is called with: the grid points
\* with coordinates 0..MaxCoord, over the denominator 1 or 32.  Over 32 the
\* smallest non-zero cross product is shorter than 1E-3 and the next
\* smallest is longer.
TrianglePointDenominators == {1, 32}

CallComputeTriangleOutwardNormal ==
  /\ pc = "init"
  /\ \E den \in TrianglePointDenominators :
       \E pt0 \in [Axes -> 0..MaxCoord], pt1 \in [Axes -> 0..MaxCoord],
          pt2 \in [Axes -> 0..MaxCoord] :
         ret' = [op |-> "ComputeTriangleOutwardNormal", den |-> den,
                 pt0 |-> pt0, pt1 |-> pt1, pt2 |-> pt2,
                 result |-> ComputeTriangleOutwardNormal(pt0, pt1, pt2, den)]
  /\ pc' = "done"
  /\ UNCHANGED <<prog, R>>

\* Points of the unit sphere in the first orthant with rational coordinates,
\* over the denominator 15, and the vertex lists made of three or four of
\* them.
SpherePoints ==
  {Vec3(15, 0, 0), Vec3(0, 15, 0), Vec3(0, 0, 15),
   Vec3(9, 12, 0), Vec3(12, 9, 0), Vec3(10, 10, 5)}

VertexLists == [1..3 -> SpherePoints] \cup [1..4 -> SpherePoints]

\* What the solver may hand back for (n, d): a strictly positive normal with
\* the intercept inside (0, 1), a normal with a zero component, the
\* intercept 0, and an intercept above 1.
SolverSolutions ==
  {[n |-> Vec3(1, 1, 1), n_norm_sq |-> 3, d |-> 15],
   [n |-> Vec3(1, 0, 1), n_norm_sq |-> 2, d |-> 15],
   [n |-> Vec3(1, 1, 1), n_norm_sq |-> 3, d |-> 0],
   [n |-> Vec3(1, 1, 1), n_norm_sq |-> 3, d |-> 30]}

CallComputeHalfSpaceRelaxationForBoxSphereIntersection ==
  /\ pc = "init"
  /\ \E pts \in VertexLists, solution \in SolverSolutions :
       ret' = [op |-> "ComputeHalfSpaceRelaxationForBoxSphereIntersection",
               den |-> 15, pts |-> pts,
               result |-> ComputeHalfSpaceRelaxationForBoxSphereIntersection(
                            pts, 15, solution)]
  /\ pc' = "done"
  /\ UNCHANGED <<prog, R>>

CallComputeInnerFacetsForBoxSphereIntersection ==
  /\ pc = "init"
  /\ \E pts \in VertexLists :
       ret' = [op |-> "ComputeInnerFacetsForBoxSphereIntersection",
               den |-> 15, pts |-> pts,
               result |-> ComputeInnerFacetsForBoxSphereIntersection(pts, 15)]
  /\ pc' = "done"
  /\ UNCHANGED <<prog, R>>

\* The values stored in the test matrices.
StoredValues == {-1, 3}

\* TestConversion on every compressed matrix of at most MaxDim rows and
\* columns whose stored values are drawn from StoredValues; a 0 in `dense`
\* is an entry that is not stored.
CallTestConversion ==
  /\ pc = "init"
  /\ \E rows \in 0..MaxDim, cols \in 0..MaxDim :
       \E dense \in [(0..(rows - 1)) \X (0..(cols - 1)) -> {0} \cup StoredValues] :
         LET stored == {rc \in DOMAIN dense : dense[rc] # 0}
             Xi == CompressedMatrix(rows, cols, [rc \in stored |-> dense[rc]])
             scs_A == ConstructScsAmatrix(Xi)
         IN ret' = [op |-> "TestConversion", Xi |-> Xi, scs_A |-> scs_A,
                    converted |-> ScsAmatrixToEigenSparseMatrix(scs_A)]
  /\ pc' = "done"
  /\ UNCHANGED <<prog, R>>

\* The test with every set of binary variable indices; the test and the
\* node each go through the unordered set in an order of their own.
CallTestConstructorWithBinaryVarIndices ==
  /\ pc = "init"
  /\ \E binary_var_indices \in SUBSET (0..(A_.cols - 1)) :
       \E iterated \in IterationOrders(binary_var_indices),
          visited \in IterationOrders(binary_var_indices) :
         LET root == ScsNode(ConstructScsAmatrix(A_), b_, c_, cone_, visited, Tenths(1))
         IN ret' = [op |-> "TestConstructorWithBinaryVarIndices",
                    binary_var_indices |-> binary_var_indices,
                    iterated |-> iterated, visited |-> visited,
                    root |-> root,
                    passed |-> TestConstructorWithBinaryVarIndices(root, iterated)]
  /\ pc' = "done"
  /\ UNCHANGED <<prog, R>>

\* What the geometry of a box with an intersection region may be: a unit
\* normal that is strictly positive or has a zero component, an intercept
\* strictly between 0 and 1, and one or two facets.  The numbers are chosen
\* rational, with rational sin(theta) and sin(theta / 2).
RegionGeometries ==
  {[den |-> 75, normal |-> Vec3(25, 50, 50), d |-> 21,
    A |-> <<Vec3(-50, -50, -25), Vec3(-50, -25, -50)>>, b |-> <<-50, -45>>],
   [den |-> 25, normal |-> Vec3(0, 15, 20), d |-> 7,
    A |-> <<Vec3(0, -15, -20)>>, b |-> <<-7>>],
   [den |-> 169, normal |-> Vec3(39, 52, 156), d |-> 119,
    A |-> <<Vec3(-39, -52, -156)>>, b |-> <<-119>>]}

\* The cells of the grid that have an intersection region.
RegionCells(N) ==
  {cell \in [Axes -> 0..(N - 1)] :
     /\ BoxIntersectsSphere(cell, [axis \in Axes |-> cell[axis] + 1], N)
     /\ ~MinOrMaxCornerOnSphere(cell, [axis \in Axes |-> cell[axis] + 1], N)}

\* The orthant pass of AddMcCormickVectorConstraints for a cell with an
\* intersection region, on the first column of R with the other two
\* columns as companions; the caller creates the digits of the column.
CallMcCormickRegionRows ==
  /\ pc = "ready"
  /\ \E N \in 1..MaxN, geometry \in RegionGeometries, o \in 0..7 :
       \E cell \in RegionCells(N) :
         LET num_digits == NumDigits(NumLambda(N))
             gray_codes == CalculateReflectedGrayCodes(num_digits)
             p1 == NewVariables(prog, 3 * num_digits, "B", "binary")
             B_i == [axis \in Axes |->
                       [k \in 0..(num_digits - 1) |->
                          Len(prog.vars) + axis * num_digits + k + 1]]
             orthant_c == CalcBoxBinaryExpressionInOrthant(
                            cell[0], cell[1], cell[2], o, gray_codes, B_i, N)
             orthant_c_sum == LinPlus(orthant_c[0], LinPlus(orthant_c[1], orthant_c[2]))
         IN /\ prog' = AddConstraints(p1,
                         McCormickRegionRows(geometry, o, orthant_c_sum,
                                             Col(R, 0), Col(R, 1), Col(R, 2)))
            /\ ret' = [op |-> "McCormickRegionRows", N |-> N, cell |-> cell,
                       orthant |-> o, geometry |-> geometry, gray_codes |-> gray_codes,
                       B_i |-> B_i, orthant_c_sum |-> orthant_c_sum, before |-> p1]
  /\ pc' = "done"
  /\ UNCHANGED R

CallInverseKinematics ==
  /\ pc = "init"
  /\ \E sol \in StageSolvers :
       \E r \in {inverse_kinematics(sol)} :
          ret' = [op |-> "inverse_kinematics", sol |-> sol,
                  after_q1 |-> r.after_q1, after_q2 |-> r.after_q2,
                  after_q3 |-> r.after_q3, after_q456 |-> r.after_q456,
                  q_all_vec |-> r.q_all_vec]
  /\ pc' = "done"
  /\ UNCHANGED <<prog, R>>

Next ==
  \/ CallNewRotationMatrixVars
  \/ CallAddRotationMatrixOrthonormalSocpConstraint
  \/ CallAddRotationMatrixSpectrahedralSdpConstraint
  \/ CallAddBoundingBoxConstraintsImpliedByRollPitchYawLimits
  \/ CallAddBoundingBoxConstraintsImpliedByRollPitchYawLimitsToBinary
  \/ CallAddNotInSameOrOppositeOrthantConstraint
  \/ CallAddRotationMatrixMcCormickEnvelopeMilpConstraints
  \/ CallMcCormickRegionRows
  \/ CallPickBinaryExpressionGivenInterval
  \/ CallCalcBoxBinaryExpressionInOrthant
  \/ CallInverseKinematics
  \/ CallPositiveAxisIntervalIndexToFullAxisIntervalIndex
  \/ CallComputeBoxEdgesAndSphereIntersection
  \/ CallComputeTriangleOutwardNormal
  \/ CallComputeHalfSpaceRelaxationForBoxSphereIntersection
  \/ CallComputeInnerFacetsForBoxSphereIntersection
  \/ CallTestConversion
  \/ CallTestConstructorWithBinaryVarIndices

Spec == Init /\ [][Next]_vars

----------------------------------------------------------------------------
(* Properties of the internal helpers.                                     *)

\* C2: for a Gray-code table and a row index k of the table, the value of
\* PickBinaryExpressionGivenInterval(k, table, b) at a 0/1 assignment b is 0
\* exactly when b is row k of the table, and is an integer >= 1 for every
\* other assignment.
C2_PickBinaryExpressionIsZeroOnlyAtRow ==
  (/\ ret.op = "PickBinaryExpressionGivenInterval"
   /\ ret.interval_idx < Cardinality(DOMAIN ret.gray_codes))
  => /\ ret.value \in Int
     /\ (ret.value = 0) <=> (ret.b = ret.gray_codes[ret.interval_idx])
     /\ (ret.b # ret.gray_codes[ret.interval_idx]) => ret.value >= 1

\* Row 2 of a table of more than one digit is selected by its own digits.
C2_Witness ==
  /\ ret.op = "PickBinaryExpressionGivenInterval"
  /\ Cardinality(DOMAIN ret.b) >= 2
  /\ ret.interval_idx = 2
  /\ ret.b = ret.gray_codes[2]
  /\ ret.value = 0

\* n is 2^k for some k >= 0.
IsPowerOfTwo(n) == \E k \in 0..n : n = 2 ^ k

\* The ids of the variables of p with the given name, in increasing order.
IdsNamed(p, name) == SortedSeq({k \in 1..Len(p.vars) : p.vars[k].name = name})

\* The constraints added by the call that led to this state.
AddedConstraints == SubSeq(prog.cons, Len(ret.before.cons) + 1, Len(prog.cons))

\* The variable ids a linear constraint mentions.
Mentioned(c) == {c.e.terms[k][2] : k \in 1..Len(c.e.terms)}

\* The column pairs in the order of the loop.
ColumnPairs == << <<0, 1>>, <<0, 2>>, <<1, 2>> >>

\* The auxiliary variables t and s of the n-th column pair.
PairT(n) == [i \in Axes |-> IdsNamed(prog, "t")[3 * (n - 1) + i + 1]]

PairS(n) == [i \in Axes |-> IdsNamed(prog, "s")[3 * (n - 1) + i + 1]]

\* The added constraints that mention a variable t or s of the n-th pair.
PairConstraints(n) ==
  {k \in 1..Len(AddedConstraints) :
     \E i \in Axes : {PairT(n)[i], PairS(n)[i]} \cap Mentioned(AddedConstraints[k]) # {}}

\* The assignment that gives the sign digits col0, col1 of two columns the
\* values b0 and b1, the variables t_ids and s_ids the values t and s, and 0
\* to every other variable.
PairAssignment(col0, col1, t_ids, s_ids, b0, b1, t, s) ==
  (t_ids[0] :> t[0]) @@ (t_ids[1] :> t[1]) @@ (t_ids[2] :> t[2])
  @@ (s_ids[0] :> s[0]) @@ (s_ids[1] :> s[1]) @@ (s_ids[2] :> s[2])
  @@ (col0[0] :> b0[0]) @@ (col0[1] :> b0[1]) @@ (col0[2] :> b0[2])
  @@ (col1[0] :> b1[0]) @@ (col1[1] :> b1[1]) @@ (col1[2] :> b1[2])
  @@ [id \in 1..Len(prog.vars) |-> 0]

\* Every linear constraint of cs holds at the assignment val.
SatAllLinear(cs, val) == \A k \in 1..Len(cs) : SatLinear(cs[k], val, 1)

\* Some t, s satisfy the constraints cs at the digits b0, b1.
FeasibleAt(cs, col0, col1, t_ids, s_ids, b0, b1) ==
  \E t \in [Axes -> 0..MaxAux], s \in [Axes -> 0..MaxAux] :
    SatAllLinear(cs, PairAssignment(col0, col1, t_ids, s_ids, b0, b1, t, s))

\* The constraints of the n-th pair, in the order they were added.
PairConstraintSeq(n) ==
  LET OfPair(c) == \E i \in Axes : {PairT(n)[i], PairS(n)[i]} \cap Mentioned(c) # {}
  IN SelectSeq(AddedConstraints, OfPair)

\* Some t, s satisfy the constraints of the n-th pair at the digits b0, b1.
PairFeasible(n, b0, b1) ==
  FeasibleAt(PairConstraintSeq(n),
             Col(ret.B, ColumnPairs[n][1]), Col(ret.B, ColumnPairs[n][2]),
             PairT(n), PairS(n), b0, b1)

\* The constraints cs admit some t, s exactly at the digits that are neither
\* equal in all three coordinates nor different in all three.
FeasibleExactlyOffSameAndOpposite(cs, col0, col1, t_ids, s_ids) ==
  \A b0 \in [Axes -> {0, 1}], b1 \in [Axes -> {0, 1}] :
    FeasibleAt(cs, col0, col1, t_ids, s_ids, b0, b1)
      <=> /\ ~(\A i \in Axes : b0[i] = b1[i])
          /\ ~(\A i \in Axes : b0[i] # b1[i])

\* C3: for N a power of two and any 0/1 sign digits of two columns (of two
\* rows, when the transpose is passed), the constraints that
\* AddNotInSameOrOppositeOrthantConstraint adds for the pair admit some t, s
\* if and only if the digits are neither equal in all three coordinates nor
\* different in all three coordinates.
C3_NotInSameOrOppositeOrthantFeasibility ==
  (ret.op = "AddNotInSameOrOppositeOrthantConstraint" /\ IsPowerOfTwo(ret.N))
  => \A n \in 1..3 :
       FeasibleExactlyOffSameAndOpposite(
         PairConstraintSeq(n),
         Col(ret.B, ColumnPairs[n][1]), Col(ret.B, ColumnPairs[n][2]),
         PairT(n), PairS(n))

\* The cuts were added for N = 2; opposite digits are refused and digits
\* equal in one coordinate only are admitted.
C3_Witness ==
  /\ ret.op = "AddNotInSameOrOppositeOrthantConstraint"
  /\ ret.N = 2
  /\ ~PairFeasible(2, Vec3(0, 1, 0), Vec3(1, 0, 1))
  /\ PairFeasible(2, Vec3(0, 1, 0), Vec3(0, 0, 1))

\* C4: AddNotInSameOrOppositeOrthantConstraint adds its variables t, s and
\* its constraints, for each of the column pairs (0,1), (0,2), (1,2), exactly
\* when N is a power of two; for any other N it leaves the program as it
\* was.  The McCormick constructor, which calls it for B[0] and for the
\* transpose of B[0], has auxiliary variables exactly when N is a power of
\* two.
C4_NotInSameOrOppositeOrthantOnlyForPowerOfTwo ==
  /\ ret.op = "AddNotInSameOrOppositeOrthantConstraint"
     => IF IsPowerOfTwo(ret.N)
          THEN /\ Len(IdsNamed(prog, "t")) = 9
               /\ Len(IdsNamed(prog, "s")) = 9
               /\ Len(prog.vars) = Len(ret.before.vars) + 18
               /\ SubSeq(prog.vars, 1, Len(ret.before.vars)) = ret.before.vars
               /\ SubSeq(prog.cons, 1, Len(ret.before.cons)) = ret.before.cons
               /\ \A n \in 1..3 :
                    /\ PairConstraints(n) # {}
                    /\ \A k \in PairConstraints(n) :
                         Mentioned(AddedConstraints[k])
                           \subseteq {PairT(n)[i] : i \in Axes} \cup {PairS(n)[i] : i \in Axes}
                                     \cup {ret.B[i][ColumnPairs[n][1]] : i \in Axes}
                                     \cup {ret.B[i][ColumnPairs[n][2]] : i \in Axes}
                    /\ \A i \in Axes :
                         \E k \in PairConstraints(n) :
                           {ret.B[i][ColumnPairs[n][1]], ret.B[i][ColumnPairs[n][2]]}
                             \subseteq Mentioned(AddedConstraints[k])
               /\ \A k \in 1..Len(AddedConstraints) :
                    \E n \in 1..3 : k \in PairConstraints(n)
          ELSE prog = ret.before
  /\ (ret.op = "AddRotationMatrixMcCormickEnvelopeMilpConstraints" /\ ~ret.aborted /\ ~ret.thrown)
     => IF IsPowerOfTwo(ret.N)
          THEN Len(IdsNamed(prog, "t")) = 18 /\ Len(IdsNamed(prog, "s")) = 18
          ELSE Len(IdsNamed(prog, "t")) = 0 /\ Len(IdsNamed(prog, "s")) = 0

\* The call with N = 3 returned and left the program unchanged.
C4_Witness ==
  /\ ret.op = "AddNotInSameOrOppositeOrthantConstraint"
  /\ ret.N = 3
  /\ prog = ret.before
  /\ pc = "done"

\* C5: for every N >= 1 accepted by the McCormick constructor, B[0] is
\* sign-indicating: among the 2N full-axis intervals exactly those on the
\* non-negative half, N..2N-1, have first Gray digit 1, so that fixing
\* B[0](i,j) restricts only the sign of R(i,j).
C5_FirstDigitIndicatesSignForEveryN ==
  (ret.op = "AddRotationMatrixMcCormickEnvelopeMilpConstraints" /\ ~ret.aborted /\ ~ret.thrown)
  => \A m \in 0..(2 * ret.N - 1) :
       ret.gray_codes[m][0] = IF m >= ret.N THEN 1 ELSE 0

\* C6: when N is a power of two, for every full-axis interval index m in
\* 0..2N-1 the first digit of Gray-code row m is 0 if m < N and 1 if m >= N.
C6_TopDigitReportsSignForPowerOfTwo ==
  (/\ ret.op = "AddRotationMatrixMcCormickEnvelopeMilpConstraints"
   /\ ~ret.aborted
   /\ IsPowerOfTwo(ret.N))
  => /\ \A m \in 0..(ret.N - 1) : ret.gray_codes[m][0] = 0
     /\ \A m \in ret.N..(2 * ret.N - 1) : ret.gray_codes[m][0] = 1

\* The constructor ran with N = 2, whose table has two digits.
C6_Witness ==
  /\ ret.op = "AddRotationMatrixMcCormickEnvelopeMilpConstraints"
  /\ ~ret.aborted
  /\ ret.N = 2
  /\ Cardinality(DOMAIN ret.gray_codes[0]) = 2
  /\ ret.gray_codes[1][0] = 0
  /\ ret.gray_codes[2][0] = 1

\* C7: per axis, PositiveAxisIntervalIndexToFullAxisIntervalIndex maps an
\* index idx in 0..N-1 to idx + N when the orthant's sign mask of the axis is
\* positive and to N - 1 - idx when it is negative; the result lies in
\* 0..2N-1, and for a fixed axis (idx, sign) -> full index is a bijection
\* onto 0..2N-1.
C7_FullAxisIntervalIndexIsBijection ==
  ret.op = "PositiveAxisIntervalIndexToFullAxisIntervalIndex"
  => /\ \A i \in Axes :
          /\ ret.mask[i] \in {-1, 1}
          /\ ret.full[i] \in 0..(2 * ret.N - 1)
          /\ ret.mask[i] > 0 => ret.full[i] = ret.interval_idx[i] + ret.N
          /\ ret.mask[i] < 0 => ret.full[i] = ret.N - 1 - ret.interval_idx[i]
     /\ \A i \in Axes :
          LET Full(idx, o) ==
                PositiveAxisIntervalIndexToFullAxisIntervalIndex(
                    Vec3(idx, idx, idx), o, ret.N)[i]
              Sign(o) == OrthantToAxisMask(o)[i]
          IN /\ {Full(idx, o) : idx \in 0..(ret.N - 1), o \in 0..7} = 0..(2 * ret.N - 1)
             /\ \A idx1 \in 0..(ret.N - 1), idx2 \in 0..(ret.N - 1) :
                  \A o1 \in 0..7, o2 \in 0..7 :
                    (Full(idx1, o1) = Full(idx2, o2))
                      <=> (idx1 = idx2 /\ Sign(o1) = Sign(o2))

\* With N = 3, an orthant with both signs maps index 0 to 3 on a positive
\* axis and to 2 on a negative axis.
C7_Witness ==
  /\ ret.op = "PositiveAxisIntervalIndexToFullAxisIntervalIndex"
  /\ ret.N = 3
  /\ \E i \in Axes, j \in Axes :
       /\ ret.mask[i] > 0 /\ ret.interval_idx[i] = 0 /\ ret.full[i] = 3
       /\ ret.mask[j] < 0 /\ ret.interval_idx[j] = 0 /\ ret.full[j] = 2

\* C8: the Gray-code table the McCormick constructor uses for the digit
\* count d = ceil(log2(2N)) has 2^d rows of d bits, and every two consecutive
\* rows differ in exactly one bit, so that all rows are distinct.
C8_GrayCodeTableOfConstructor ==
  (ret.op = "AddRotationMatrixMcCormickEnvelopeMilpConstraints" /\ ~ret.aborted /\ ~ret.thrown)
  => LET d == CHOOSE e \in 0..(2 * ret.N) :
                /\ 2 ^ e >= 2 * ret.N
                /\ \A f \in 0..(e - 1) : 2 ^ f < 2 * ret.N
         rows == DOMAIN ret.gray_codes
     IN /\ rows = 0..(2 ^ d - 1)
        /\ \A r \in rows : ret.gray_codes[r] \in [0..(d - 1) -> {0, 1}]
        /\ \A r \in rows :
             (r + 1) \in rows
               => Cardinality({j \in 0..(d - 1) :
                                 ret.gray_codes[r][j] # ret.gray_codes[r + 1][j]}) = 1
        /\ \A r1 \in rows, r2 \in rows :
             ret.gray_codes[r1] = ret.gray_codes[r2] => r1 = r2

\* The constructor ran with N = 3 and used a table of 8 rows of 3 bits.
C8_Witness ==
  /\ ret.op = "AddRotationMatrixMcCormickEnvelopeMilpConstraints"
  /\ ~ret.aborted
  /\ ret.N = 3
  /\ Cardinality(DOMAIN ret.gray_codes) = 8
  /\ Cardinality(DOMAIN ret.gray_codes[7]) = 3

\* C9: every rotation matrix satisfies the entry bounds and the trace bound
\* installed by NewRotationMatrixVars, the rotated-cone and Lorentz-cone
\* constraints added by AddRotationMatrixOrthonormalSocpConstraint, and the
\* linear matrix inequality added by
\* AddRotationMatrixSpectrahedralSdpConstraint.
C9_RotationsSatisfyConvexRelaxations ==
  ret.op \in {"NewRotationMatrixVars",
              "AddRotationMatrixOrthonormalSocpConstraint",
              "AddRotationMatrixSpectrahedralSdpConstraint"}
  => \A rot \in Rotations :
       \A k \in 1..Len(prog.cons) :
         Sat(prog.cons[k], SubstituteRotation(prog, R, rot), rot.den)

\* The linear matrix inequality was added, next to the bounds, and a
\* rotation with a negative diagonal entry satisfies all of them.
C9_Witness ==
  /\ ret.op = "AddRotationMatrixSpectrahedralSdpConstraint"
  /\ Len(prog.cons) = 3
  /\ prog.cons[3].kind = "lmi"
  /\ \E rot \in Rotations :
       /\ rot.num[0][0] < 0
       /\ \A k \in 1..Len(prog.cons) :
            Sat(prog.cons[k], SubstituteRotation(prog, R, rot), rot.den)

\* The binary cut bin fixes B(i,j) = 1 where the cut on R bounds the entry to
\* [0, 1] and B(i,j) = 0 where it bounds the entry to [-1, 0], entry by entry.
SameCuts(continuous, bin) ==
  /\ Len(continuous) = Len(bin)
  /\ \A k \in 1..Len(continuous) :
       /\ continuous[k].kind = "bbox" /\ bin[k].kind = "bbox"
       /\ continuous[k].xs = bin[k].xs
       /\ \/ /\ continuous[k].lb = 0 /\ continuous[k].ub = 1
             /\ bin[k].lb = 1 /\ bin[k].ub = 1
          \/ /\ continuous[k].lb = -1 /\ continuous[k].ub = 0
             /\ bin[k].lb = 0 /\ bin[k].ub = 0

\* C10: for every limits bitmask, the binary version of the angle-limit cut
\* constrains the same matrix entries under the same conditions as the
\* continuous version, fixing B(i,j) = 1 where the continuous version bounds
\* R(i,j) to [0, 1] and B(i,j) = 0 where it bounds R(i,j) to [-1, 0]; with
\* an empty bitmask neither version adds a constraint.
C10_BinaryCutMatchesContinuousCut ==
  /\ ret.op = "AddBoundingBoxConstraintsImpliedByRollPitchYawLimits"
     => /\ SameCuts(AddedConstraints,
                    AddBoundingBoxConstraintsImpliedByRollPitchYawLimitsToBinary(
                        EmptyProg, R, ret.limits).cons)
        /\ ret.limits = 0 => AddedConstraints = <<>>
  /\ ret.op = "AddBoundingBoxConstraintsImpliedByRollPitchYawLimitsToBinary"
     => /\ SameCuts(AddBoundingBoxConstraintsImpliedByRollPitchYawLimits(
                        EmptyProg, ret.B, ret.limits).cons,
                    AddedConstraints)
        /\ ret.limits = 0 => AddedConstraints = <<>>

\* With every limit set the binary cut fixed all seven entries.
C10_Witness ==
  /\ ret.op = "AddBoundingBoxConstraintsImpliedByRollPitchYawLimitsToBinary"
  /\ ret.limits = 126
  /\ Len(AddedConstraints) = 7
  /\ AddedConstraints[3] = BoundingBox(0, 0, <<ret.B[2][0]>>)

----------------------------------------------------------------------------
(* Properties of the McCormick constructor's result.                       *)

\* The least d with 2^d >= n.
CeilingOfLog2(n) ==
  CHOOSE d \in 0..n : 2 ^ d >= n /\ \A e \in 0..(d - 1) : 2 ^ e < n

\* The SOS2 encodings in the program whose weights are the variables that
\* the row R(i, j) = phi . lambda combines.
EncodingsOfEntry(i, j) ==
  {s \in 1..Len(prog.cons) :
     /\ prog.cons[s].kind = "sos2"
     /\ \E c \in 1..Len(prog.cons) :
          /\ prog.cons[c].kind = "linear"
          /\ R[i][j] \in Mentioned(prog.cons[c])
          /\ Mentioned(prog.cons[c]) \ {R[i][j]}
               = {prog.cons[s].lambda[k] : k \in DOMAIN prog.cons[s].lambda}}

\* C11: the McCormick constructor returns exactly d = ceil(log2(2N))
\* matrices of binary variables, at least one; B[k](i,j) is the k-th digit
\* of the selector the SOS2 encoding created for the entry R(i,j), and every
\* one of the 9 x d entries is assigned.
C11_ReturnedDigitMatrices ==
  (ret.op = "AddRotationMatrixMcCormickEnvelopeMilpConstraints" /\ ~ret.aborted /\ ~ret.thrown)
  => /\ DOMAIN ret.B = 0..(CeilingOfLog2(2 * ret.N) - 1)
     /\ Cardinality(DOMAIN ret.B) >= 1
     /\ \A k \in DOMAIN ret.B :
          /\ DOMAIN ret.B[k] = Axes
          /\ \A i \in Axes :
               /\ DOMAIN ret.B[k][i] = Axes
               /\ \A j \in Axes :
                    /\ ret.B[k][i][j] \in 1..Len(prog.vars)
                    /\ prog.vars[ret.B[k][i][j]].type = "binary"
                    /\ Cardinality(EncodingsOfEntry(i, j)) = 1
                    /\ \A s \in EncodingsOfEntry(i, j) :
                         /\ DOMAIN prog.cons[s].y = DOMAIN ret.B
                         /\ prog.cons[s].y[k] = ret.B[k][i][j]

\* The constructor ran with N = 3 and returned three matrices whose 27
\* entries are distinct binary variables.
C11_Witness ==
  /\ ret.op = "AddRotationMatrixMcCormickEnvelopeMilpConstraints"
  /\ ~ret.aborted
  /\ ret.N = 3
  /\ DOMAIN ret.B = 0..2
  /\ Cardinality({ret.B[k][i][j] : k \in 0..2, i \in Axes, j \in Axes}) = 27

\* C12: the McCormick constructor called with N < 1 fails fatally, before
\* any variable or constraint has been added: the program is unchanged.
C12_DemandFailsBeforeAnyChange ==
  (ret.op = "AddRotationMatrixMcCormickEnvelopeMilpConstraints" /\ ret.N < 1)
  => /\ ret.aborted
     /\ prog = ret.before
     /\ ret.B = <<>>

\* The call with N = 0 aborted and left the bounds of R as the only
\* constraints.
C12_Witness ==
  /\ ret.op = "AddRotationMatrixMcCormickEnvelopeMilpConstraints"
  /\ ret.N = 0
  /\ ret.aborted
  /\ Len(prog.vars) = 9
  /\ Len(prog.cons) = 2

----------------------------------------------------------------------------
(* Properties of the box and sphere geometry.                              *)

\* The elements of a sequence.
Range(s) == {s[k] : k \in DOMAIN s}

\* The corners of the box that lie exactly on the sphere.
CornersOnSphere(bmin, bmax, den) ==
  {v \in {BoxVertex(bmin, bmax, i) : i \in 0..7} : SquaredNorm(v) = den * den}

\* The twelve edges of the box: the axis an edge runs along and its near
\* and far end points.
EdgesOfBox(bmin, bmax) ==
  {[axis |-> axis,
    near |-> [a \in Axes |-> IF a = axis THEN bmin[a] ELSE fixed[a]],
    far |-> [a \in Axes |-> IF a = axis THEN bmax[a] ELSE fixed[a]]] :
     axis \in Axes,
     fixed \in {f \in [Axes -> 0..bmax[0] + bmax[1] + bmax[2]] :
                  \A a \in Axes : f[a] \in {bmin[a], bmax[a]}}}

StraddlingEdges(bmin, bmax, den) ==
  {e \in {[axis |-> x.axis, near |-> x.near, far |-> x.far] : x \in EdgesOfBox(bmin, bmax)} :
     SquaredNorm(e.near) < den * den /\ SquaredNorm(e.far) > den * den}

\* q, in squared coordinates, lies on the edge e strictly between its end
\* points and on the sphere.
IsCrossingPointOf(q, e, den) ==
  /\ \A a \in Axes \ {e.axis} : q[a] = e.near[a] * e.near[a]
  /\ q[e.axis] > e.near[e.axis] * e.near[e.axis]
  /\ q[e.axis] < e.far[e.axis] * e.far[e.axis]
  /\ q[0] + q[1] + q[2] = den * den

\* C13: for a box of the first orthant whose min corner is strictly inside
\* and whose max corner is strictly outside the unit sphere,
\* ComputeBoxEdgesAndSphereIntersection returns each corner that lies on the
\* sphere and, for each of the twelve edges whose near end is strictly
\* inside and whose far end is strictly outside, the one point of that edge
\* strictly between its ends that lies on the sphere; nothing else is
\* returned and nothing is returned twice.  For the box [0,0,0] x [1,1,1]
\* the result is the three points (1,0,0), (0,1,0), (0,0,1).
C13_BoxEdgesAndSphereIntersection ==
  (/\ ret.op = "ComputeBoxEdgesAndSphereIntersection"
   /\ SquaredNorm(ret.bmin) < ret.den * ret.den
   /\ SquaredNorm(ret.bmax) > ret.den * ret.den)
  => LET pts == ret.intersections
         corners == CornersOnSphere(ret.bmin, ret.bmax, ret.den)
         edges == StraddlingEdges(ret.bmin, ret.bmax, ret.den)
         crossings == {q \in Range(pts) : \E e \in edges : IsCrossingPointOf(q, e, ret.den)}
     IN /\ Cardinality(Range(pts)) = Len(pts)
        /\ Range(pts) = {Squares(v) : v \in corners} \cup crossings
        /\ \A e \in edges :
             Cardinality({q \in Range(pts) : IsCrossingPointOf(q, e, ret.den)}) = 1
        /\ Len(pts) = Cardinality(corners) + Cardinality(edges)
        /\ (ret.bmin = Vec3(0, 0, 0) /\ ret.bmax = Vec3(ret.den, ret.den, ret.den))
             => Range(pts) = {Vec3(ret.den * ret.den, 0, 0),
                              Vec3(0, ret.den * ret.den, 0),
                              Vec3(0, 0, ret.den * ret.den)}

\* The box [0,2/3,2/3] x [1/3,1,1]: the corner (1/3,2/3,2/3) lies on the
\* sphere and two edges cross it, at (0,sqrt(5)/3,2/3) and (0,2/3,sqrt(5)/3).
C13_Witness ==
  /\ ret.op = "ComputeBoxEdgesAndSphereIntersection"
  /\ ret.den = 3
  /\ ret.bmin = Vec3(0, 2, 2)
  /\ ret.bmax = Vec3(1, 3, 3)
  /\ ret.intersections = <<Vec3(1, 4, 4), Vec3(0, 5, 4), Vec3(0, 4, 5)>>

\* C16: ComputeTriangleOutwardNormal fails with an error, and produces no
\* (n, d), exactly when the cross product of the two edge vectors is shorter
\* than 1E-3; otherwise it returns the unit normal of the plane through the
\* three points with the sign that makes every component >= 0, together with
\* d = pt0 . n; when neither sign makes every component >= 0 the call is a
\* fatal failure and nothing is returned.
C16_TriangleOutwardNormal ==
  ret.op = "ComputeTriangleOutwardNormal"
  => LET edge1 == Minus(ret.pt1, ret.pt0)
         edge2 == Minus(ret.pt2, ret.pt0)
         c == Cross(edge2, edge1)
         short == SquaredNorm(c) * 1000000 < ret.den ^ 4
         mixed == (\E i \in Axes : c[i] > 0) /\ (\E i \in Axes : c[i] < 0)
         r == ret.result
     IN /\ r.status = "throw" <=> short
        /\ r.status = "abort" <=> (~short /\ mixed)
        /\ r.status = "ok" <=> (~short /\ ~mixed)
        /\ r.status # "ok" => DOMAIN r = {"status"}
        /\ r.status = "ok"
             => /\ \A i \in Axes : r.n[i] >= 0
                /\ r.n_norm_sq = SquaredNorm(r.n)
                /\ r.n_norm_sq > 0
                /\ Dot(r.n, edge1) = 0
                /\ Dot(r.n, edge2) = 0
                /\ r.d = Dot(ret.pt0, r.n)

\* The triangle (1,0,0), (0,1,0), (0,0,1): the cross product is (-1,-1,-1),
\* and the result is n = (1,1,1) / sqrt(3), d = 1 / sqrt(3).
C16_Witness ==
  /\ ret.op = "ComputeTriangleOutwardNormal"
  /\ ret.den = 1
  /\ ret.pt0 = Vec3(1, 0, 0) /\ ret.pt1 = Vec3(0, 1, 0) /\ ret.pt2 = Vec3(0, 0, 1)
  /\ ret.result = [status |-> "ok", n |-> Vec3(1, 1, 1), n_norm_sq |-> 3, d |-> 1]

\* The plane through three points as ComputeInnerFacetsForBoxSphereIntersection
\* must return it: the unit normal is orthogonal to both edges, the facet is
\* the plane negated, so no component of its normal is positive, and the
\* first point lies on it.
IsNegatedPlaneThrough(facet, pts) ==
  /\ \A i \in Axes : facet.n[i] <= 0
  /\ facet.n # Vec3(0, 0, 0)
  /\ facet.n_norm_sq = SquaredNorm(facet.n)
  /\ Dot(facet.n, Minus(pts[2], pts[1])) = 0
  /\ Dot(facet.n, Minus(pts[3], pts[1])) = 0
  /\ facet.d = Dot(facet.n, pts[1])

\* C14, as the specification states it: called on exactly three non-colinear
\* points, ComputeInnerFacetsForBoxSphereIntersection returns exactly one
\* facet, the negated plane through the three points.
C14_ThreeNonColinearPointsGiveOneFacet ==
  (/\ ret.op = "ComputeInnerFacetsForBoxSphereIntersection"
   /\ Len(ret.pts) = 3
   /\ Cross(Minus(ret.pts[3], ret.pts[1]), Minus(ret.pts[2], ret.pts[1])) # Vec3(0, 0, 0))
  => /\ ret.result.status = "ok"
     /\ Len(ret.result.facets) = 1
     /\ IsNegatedPlaneThrough(ret.result.facets[1], ret.pts)

\* C14, amended: called on exactly three points whose cross product of edge
\* vectors is at least 1E-3 long and has no two components of opposite
\* sign, ComputeInnerFacetsForBoxSphereIntersection returns exactly one
\* facet, the negated plane through the three points; it throws when the
\* cross product is shorter than 1E-3 and fails fatally when the cross
\* product has components of both signs.
C14_ThreeUsablePointsGiveOneFacet ==
  (/\ ret.op = "ComputeInnerFacetsForBoxSphereIntersection"
   /\ Len(ret.pts) = 3)
  => LET c == Cross(Minus(ret.pts[3], ret.pts[1]), Minus(ret.pts[2], ret.pts[1]))
         short == SquaredNorm(c) <= (ret.den ^ 4 - 1) \div 1000000
         mixed == (\E i \in Axes : c[i] > 0) /\ (\E i \in Axes : c[i] < 0)
     IN /\ ret.result.status = "throw" <=> short
        /\ ret.result.status = "abort" <=> (~short /\ mixed)
        /\ (~short /\ ~mixed)
             => /\ ret.result.status = "ok"
                /\ Len(ret.result.facets) = 1
                /\ IsNegatedPlaneThrough(ret.result.facets[1], ret.pts)

\* The three points (1,0,0), (0,1,0), (0,0,1) give the one facet
\* -(x + y + z) / sqrt(3) <= -1 / sqrt(3).
C14_Witness ==
  /\ ret.op = "ComputeInnerFacetsForBoxSphereIntersection"
  /\ ret.pts = <<Vec3(15, 0, 0), Vec3(0, 15, 0), Vec3(0, 0, 15)>>
  /\ ret.result = [status |-> "ok",
                   facets |-> <<[n |-> Vec3(-225, -225, -225),
                                 n_norm_sq |-> 151875, d |-> -3375]>>]

----------------------------------------------------------------------------
(* Properties of the sparse-matrix conversion and of the root node.        *)

\* C18: converting a compressed sparse matrix to the SCS column-compressed
\* form with ConstructScsAmatrix and back with ScsAmatrixToEigenSparseMatrix
\* gives a matrix of the same dimensions with the same entry at every
\* position, the all-zero matrix included.
C18_SparseMatrixRoundTrip ==
  ret.op = "TestConversion"
  => /\ ret.converted.rows = ret.Xi.rows
     /\ ret.converted.cols = ret.Xi.cols
     /\ \A row \in 0..(ret.Xi.rows - 1), col \in 0..(ret.Xi.cols - 1) :
          coeff(ret.converted, row, col) = coeff(ret.Xi, row, col)

\* The matrix [0 3; -1 0] went through both conversions: the SCS form holds
\* the values -1, 3 with rows 1, 0 and column starts 0, 1, 2.
C18_Witness ==
  /\ ret.op = "TestConversion"
  /\ ret.scs_A = [m |-> 2, n |-> 2, x |-> (0 :> -1 @@ 1 :> 3),
                  i |-> (0 :> 1 @@ 1 :> 0), p |-> (0 :> 0 @@ 1 :> 1 @@ 2 :> 2)]
  /\ coeff(ret.converted, 1, 0) = -1
  /\ coeff(ret.converted, 0, 1) = 3
  /\ coeff(ret.converted, 0, 0) = 0

\* The 2 x 2 matrix without a stored entry went through both conversions.
C18_WitnessOfZeroMatrix ==
  /\ ret.op = "TestConversion"
  /\ ret.Xi.rows = 2 /\ ret.Xi.cols = 2
  /\ nonZeros(ret.Xi) = 0
  /\ nonZeros(ret.converted) = 0

\* Row r of a sparse matrix with four columns, as a dense vector.
DenseRow(A, r) == [j \in 0..3 |-> coeff(A, r, j)]

----------------------------------------------------------------------------
(* Properties of the grid cells of the McCormick constructor.              *)

\* The constraint that the call number `call` (the columns and rows of R in
\* turn, 0..5) of AddMcCormickVectorConstraints added for the cell
\* (xi, yi, zi) and the orthant o: the calls are the last thing the
\* constructor does, and each adds one entry per cell and orthant.
CellConstraint(call, xi, yi, zi, o) ==
  LET N == ret.N
      per_call == 8 * N * N * N
  IN prog.cons[Len(prog.cons) - 6 * per_call + call * per_call
               + 8 * ((xi * N + yi) * N + zi) + o + 1]

\* C19: for every N >= 1 and every grid cell that is handled as a general
\* intersection region (min corner strictly inside, max corner strictly
\* outside the unit sphere), the edges of the box meet the sphere in at
\* least 3 points, so the demand pts.size() >= 3 never fails.
C19_IntersectionRegionHasThreePoints ==
  (ret.op = "AddRotationMatrixMcCormickEnvelopeMilpConstraints" /\ ret.N >= 1 /\ ~ret.thrown)
  => /\ ~ret.aborted
     /\ \A call \in 0..5, xi \in 0..(ret.N - 1), yi \in 0..(ret.N - 1),
           zi \in 0..(ret.N - 1), o \in 0..7 :
          LET c == CellConstraint(call, xi, yi, zi, o)
              inside == SquaredNorm(Vec3(xi, yi, zi)) < ret.N * ret.N
              outside == SquaredNorm(Vec3(xi + 1, yi + 1, zi + 1)) > ret.N * ret.N
          IN /\ c.kind = "mccormick_region" <=> (inside /\ outside)
             /\ c.kind = "mccormick_region"
                  => /\ c.box_min = Vec3(xi, yi, zi)
                     /\ c.box_max = Vec3(xi + 1, yi + 1, zi + 1)
                     /\ Len(c.pts) >= 3

\* With N = 3 the cell [0,1/3] x [2/3,1] x [2/3,1] is an intersection region
\* with exactly three points, one of them the corner (1/3,2/3,2/3), and the
\* cell [0,1/3] x [0,1/3] x [2/3,1] is one with four.
C19_Witness ==
  /\ ret.op = "AddRotationMatrixMcCormickEnvelopeMilpConstraints"
  /\ ret.N = 3
  /\ ~ret.aborted
  /\ CellConstraint(0, 0, 2, 2, 0).kind = "mccormick_region"
  /\ CellConstraint(0, 0, 2, 2, 0).pts = <<Vec3(1, 4, 4), Vec3(0, 5, 4), Vec3(0, 4, 5)>>
  /\ Len(CellConstraint(5, 0, 0, 2, 7).pts) = 4

\* C20, as the specification states it: a grid cell is handled as State B,
\* the single-point intersection, exactly when exactly one corner of its box
\* lies on the unit sphere.
C20_StateBIffExactlyOneCornerOnSphere ==
  (ret.op = "AddRotationMatrixMcCormickEnvelopeMilpConstraints" /\ ret.N >= 1 /\ ~ret.thrown)
  => \A call \in 0..5, xi \in 0..(ret.N - 1), yi \in 0..(ret.N - 1),
        zi \in 0..(ret.N - 1), o \in 0..7 :
       CellConstraint(call, xi, yi, zi, o).kind = "mccormick_point"
         <=> Cardinality(CornersOnSphere(Vec3(xi, yi, zi),
                                         Vec3(xi + 1, yi + 1, zi + 1), ret.N)) = 1

\* C20, amended: a grid cell is handled as State B exactly when the min
\* corner or the max corner of its box lies on the unit sphere; that corner
\* is then the unique intersection point u and the only corner of the box on
\* the sphere.
C20_StateBIffMinOrMaxCornerOnSphere ==
  (ret.op = "AddRotationMatrixMcCormickEnvelopeMilpConstraints" /\ ret.N >= 1 /\ ~ret.thrown)
  => \A call \in 0..5, xi \in 0..(ret.N - 1), yi \in 0..(ret.N - 1),
        zi \in 0..(ret.N - 1), o \in 0..7 :
       LET c == CellConstraint(call, xi, yi, zi, o)
           box_min == Vec3(xi, yi, zi)
           box_max == Vec3(xi + 1, yi + 1, zi + 1)
           on_sphere == {u \in {box_min, box_max} : SquaredNorm(u) = ret.N * ret.N}
       IN /\ c.kind = "mccormick_point" <=> on_sphere # {}
          /\ c.kind = "mccormick_point"
               => /\ on_sphere = {c.unique_intersection}
                  /\ CornersOnSphere(box_min, box_max, ret.N) = {c.unique_intersection}
                  /\ c.orthant = o

\* With N = 3 the cell [1/3,2/3] x [2/3,1] x [2/3,1] is State B with
\* u = (1/3,2/3,2/3), its min corner, the cell [0,1/3] x [1/3,2/3] x [1/3,2/3]
\* is State B with the same u, its max corner, and the cell
\* [0,1/3] x [2/3,1] x [2/3,1], which has u as one of its other corners, is not.
C20_Witness ==
  /\ ret.op = "AddRotationMatrixMcCormickEnvelopeMilpConstraints"
  /\ ret.N = 3
  /\ CellConstraint(0, 1, 2, 2, 0).kind = "mccormick_point"
  /\ CellConstraint(0, 1, 2, 2, 0).unique_intersection = Vec3(1, 2, 2)
  /\ CellConstraint(0, 0, 1, 1, 0).kind = "mccormick_point"
  /\ CellConstraint(0, 0, 1, 1, 0).unique_intersection = Vec3(1, 2, 2)
  /\ CellConstraint(0, 0, 2, 2, 0).kind = "mccormick_region"

\* The binary variables that the call number `call` passes for the three
\* axes of its vector, read from the returned matrices: the digits of
\* R(axis, i) for the column i (call 2 i) and of R(i, axis) for the row i
\* (call 2 i + 1).
DigitsOfCall(call) ==
  [axis \in Axes |->
     [k \in DOMAIN ret.B |->
        IF call % 2 = 0 THEN ret.B[k][axis][call \div 2]
                        ELSE ret.B[k][call \div 2][axis]]]

\* C21: every grid cell (xi, yi, zi) of [0, N)^3 is in exactly one of the
\* three states; it is in State A exactly when its max corner is strictly
\* inside or its min corner strictly outside the unit sphere, and then each
\* of the 8 orthants gets the single row c(0) + c(1) + c(2) >= 1 on the
\* cell's three indicator expressions of that orthant, and nothing else.
C21_StateAForbidsTheCell ==
  (ret.op = "AddRotationMatrixMcCormickEnvelopeMilpConstraints" /\ ret.N >= 1 /\ ~ret.thrown)
  => \A call \in 0..5, xi \in 0..(ret.N - 1), yi \in 0..(ret.N - 1),
        zi \in 0..(ret.N - 1), o \in 0..7 :
       LET c == CellConstraint(call, xi, yi, zi, o)
           inside == SquaredNorm(Vec3(xi + 1, yi + 1, zi + 1)) < ret.N * ret.N
           outside == SquaredNorm(Vec3(xi, yi, zi)) > ret.N * ret.N
           indicator == CalcBoxBinaryExpressionInOrthant(
                          xi, yi, zi, o, ret.gray_codes, DigitsOfCall(call), ret.N)
       IN /\ c.kind \in {"linear", "mccormick_point", "mccormick_region"}
          /\ c.kind = "linear" <=> (inside \/ outside)
          /\ c.kind = "linear"
               => /\ c.e = LinMinus(LinPlus(indicator[0],
                                            LinPlus(indicator[1], indicator[2])),
                                    LinConst(1))
                  /\ c.has_lb /\ c.lb = 0 /\ ~c.has_ub

\* With N = 3 the cell [0,1/3]^3 lies inside the sphere and the cell
\* [2/3,1]^3 outside: both are in State A in every orthant, and the row of
\* the first one in the orthant 0 is violated by the digits 010 (interval 3,
\* which is [0, 1/3]) on the three axes.  The cell [0,1/3] x [0,1/3] x [2/3,1]
\* is not in State A.
C21_Witness ==
  /\ ret.op = "AddRotationMatrixMcCormickEnvelopeMilpConstraints"
  /\ ret.N = 3
  /\ \A o \in 0..7 : CellConstraint(0, 0, 0, 0, o).kind = "linear"
  /\ \A o \in 0..7 : CellConstraint(3, 2, 2, 2, o).kind = "linear"
  /\ CellConstraint(0, 0, 0, 2, 0).kind # "linear"
  /\ LET digits == DigitsOfCall(0)
         val == [id \in 1..Len(prog.vars) |->
                   IF \E axis \in Axes : digits[axis][1] = id THEN 1 ELSE 0]
     IN ~SatLinear(CellConstraint(0, 0, 0, 0, 0), val, 1)

\* C22, as the specification states it: for every State C cell and for
\* every one of the 8 orthants, the norm bound -1 <= n . v <= 1 with the
\* normal reflected into that orthant is emitted.
C22_NormBoundInAllEightOrthants ==
  (ret.op = "AddRotationMatrixMcCormickEnvelopeMilpConstraints" /\ ret.N >= 1 /\ ~ret.thrown)
  => \A call \in 0..5, xi \in 0..(ret.N - 1), yi \in 0..(ret.N - 1),
        zi \in 0..(ret.N - 1), o \in 0..7 :
       LET c == CellConstraint(call, xi, yi, zi, o)
       IN c.kind = "mccormick_region" => c.norm_bound

\* C22, amended: for every State C cell the norm bound -1 <= n . v <= 1 with
\* the normal reflected into the orthant is emitted for the four orthants of
\* even index and for no other; the orthant 7 - o of an odd orthant o is
\* even, and reflecting into it gives the negated normal, whose bound is the
\* same constraint.
C22_NormBoundInEvenOrthants ==
  (ret.op = "AddRotationMatrixMcCormickEnvelopeMilpConstraints" /\ ret.N >= 1 /\ ~ret.thrown)
  => \A call \in 0..5, xi \in 0..(ret.N - 1), yi \in 0..(ret.N - 1),
        zi \in 0..(ret.N - 1), o \in 0..7 :
       LET c == CellConstraint(call, xi, yi, zi, o)
           mirrored == CellConstraint(call, xi, yi, zi, 7 - o)
       IN c.kind = "mccormick_region"
            => /\ c.orthant = o
               /\ c.norm_bound <=> (o % 2 = 0)
               /\ ~c.norm_bound
                    => /\ mirrored.kind = "mccormick_region"
                       /\ mirrored.norm_bound
                       /\ mirrored.pts = c.pts
                       /\ \A n \in [Axes -> 0..2] :
                            FlipVector(n, 7 - o) = Negated(FlipVector(n, o))

\* With N = 2 the cell [0,1/2] x [0,1/2] x [1/2,1] is in State C; the column
\* 0 of R gets the norm bound of the cell in the orthant 6 and does not get
\* it in the orthant 1.
C22_Witness ==
  /\ ret.op = "AddRotationMatrixMcCormickEnvelopeMilpConstraints"
  /\ ret.N = 2
  /\ CellConstraint(0, 0, 0, 1, 6).kind = "mccormick_region"
  /\ CellConstraint(0, 0, 0, 1, 6).norm_bound
  /\ CellConstraint(0, 0, 0, 1, 1).kind = "mccormick_region"
  /\ ~CellConstraint(0, 0, 0, 1, 1).norm_bound

\* The full-axis interval of the grid N that holds the value x / den of
\* [-1, 1]; a value on a breakpoint is in two intervals, the upper or the
\* lower one is taken.
IntervalOf(x, den, N, upper) ==
  LET t == (x + den) * N
  IN IF upper THEN (IF t \div den >= 2 * N THEN 2 * N - 1 ELSE t \div den)
     ELSE (IF t % den = 0 /\ t > 0 THEN (t \div den) - 1 ELSE t \div den)

\* The digit variables of `digits`, each with the position <<i, j, k>> it
\* has there.
DigitPositions(digits) ==
  UNION {{<<digits[ij[1]][ij[2]][k], <<ij[1], ij[2], k>>>> : k \in DOMAIN digits[ij[1]][ij[2]]} :
           ij \in Axes \X Axes}

\* The values val[id] / rot.den that give R the entries of rot and give the
\* digits `digits[i][j]` of every entry R(i, j) the Gray code of an interval
\* that holds the entry; every other variable is 0.
RotationAndItsDigits(p, Rm, digits, gray_codes, rot, N, upper) ==
  LET at == DigitPositions(digits)
  IN [id \in {x[1] : x \in at} |->
        LET ijk == (CHOOSE x \in at : x[1] = id)[2]
        IN rot.den * gray_codes[IntervalOf(rot.num[ijk[1]][ijk[2]], rot.den, N, upper)][ijk[3]]]
     @@ SubstituteRotation(p, Rm, rot)

\* The values of the variables xs under val.
ValuesOf(xs, val) == [i \in Axes |-> val[xs[i]]]

\* Whether val / den satisfies every row.
SatisfiesRows(rows, val, den) == \A r \in 1..Len(rows) : SatLinear(rows[r], val, den)

\* v = u, u . v1 = 0, u . v2 = 0, u x v1 = v2, for u = u_num / N and the
\* vectors x / den.
PointRelation(u_num, N, x, x1, x2, den) ==
  /\ \A i \in Axes : N * x[i] = den * u_num[i]
  /\ Dot(u_num, x1) = 0
  /\ Dot(u_num, x2) = 0
  /\ \A i \in Axes : Cross(u_num, x1)[i] = N * x2[i]

\* A.row(i) . v <= b(i) for every facet, |n . v1| <= sin(theta),
\* |n . v2| <= sin(theta) and |v2 - n x v1| <= 2 sin(theta / 2) elementwise,
\* for the geometry g reflected into the orthant o and the vectors x / den.
RegionRelation(g, o, x, x1, x2, den) ==
  LET n == FlipVector(g.normal, o)
      sin_theta == CHOOSE s \in 0..g.den : s * s + g.d * g.d = g.den * g.den
      sin_half == CHOOSE h \in 0..g.den : 2 * h * h = g.den * (g.den - g.d)
      Abs(y) == IF y < 0 THEN -y ELSE y
  IN /\ \A i \in 1..Len(g.A) : Dot(FlipVector(g.A[i], o), x) <= g.b[i] * den
     /\ Abs(Dot(n, x1)) <= sin_theta * den
     /\ Abs(Dot(n, x2)) <= sin_theta * den
     /\ \A i \in Axes : Abs(g.den * x2[i] - Cross(n, x1)[i]) <= 2 * sin_half * den

\* The digit variables of the entries of R, as the constructor returned them.
ReturnedDigits ==
  [i \in Axes |-> [j \in Axes |-> [k \in DOMAIN ret.B |-> ret.B[k][i][j]]]]

\* The digit variables of the direct call: those of the first column of R.
DigitsOfFirstColumn ==
  [i \in Axes |-> [j \in Axes |-> IF j = 0 THEN ret.B_i[i] ELSE <<>>]]

\* Whether the rows of one orthant of one box are gated as they should be
\* at val / den: with the activation sum 0 they hold exactly when the
\* ungated relation does, and with the activation sum >= 1 they hold.
GatedAt(rows, orthant_c_sum, relation, norms_at_most_1, val, den) ==
  LET activation == EvalLin(orthant_c_sum, val, den)
  IN /\ activation % den = 0
     /\ activation >= 0
     /\ activation = 0 => (SatisfiesRows(rows, val, den) <=> relation)
     /\ (activation >= den /\ norms_at_most_1) => SatisfiesRows(rows, val, den)

\* Whether the vectors x / den, x1 / den and x2 / den have norms <= 1.
NormsAtMostOne(x, x1, x2, den) ==
  /\ SquaredNorm(x) <= den * den
  /\ SquaredNorm(x1) <= den * den
  /\ SquaredNorm(x2) <= den * den

\* The matrix whose columns are the columns p[1], p[2], p[3] of rot.
WithColumns(rot, p) ==
  [den |-> rot.den, num |-> [i \in Axes |-> [j \in Axes |-> rot.num[i][p[j + 1]]]]]

\* The matrices at which the gated rows are evaluated: the rotation matrices
\* whose entries are thirds, and the matrices made of their columns with the
\* two companions swapped or with a column repeated, which are not rotation
\* matrices.
MatricesOfUnitColumns ==
  {WithColumns(rot, p) : rot \in {r \in Rotations : r.den = 3},
                         p \in {<<0, 1, 2>>, <<0, 2, 1>>, <<0, 0, 2>>, <<0, 1, 0>>}}

\* The values of the variables at which the gated rows are evaluated, each
\* with its denominator.
ValueTables(p, Rm, digits, gray_codes, N) ==
  {[den |-> m.den,
    val |-> RotationAndItsDigits(p, Rm, digits, gray_codes, m, N, upper)] :
     m \in MatricesOfUnitColumns, upper \in BOOLEAN}

\* Whether the rows of the orthant o of a box with a corner on the sphere
\* are gated as they should be at t.
PointRowsGatedAt(c, N, t) ==
  LET x == ValuesOf(c.v, t.val)
      x1 == ValuesOf(c.v1, t.val)
      x2 == ValuesOf(c.v2, t.val)
  IN GatedAt(c.rows, c.orthant_c_sum,
             PointRelation(FlipVector(c.unique_intersection, c.orthant), N, x, x1, x2, t.den),
             NormsAtMostOne(x, x1, x2, t.den), t.val, t.den)

\* Whether the rows of every orthant of every box with a corner on the
\* sphere, in the six calls of the constructor, are gated as they should be
\* at every table.
PointRowsGated(tables) ==
  \A call \in 0..5, xi \in 0..(ret.N - 1), yi \in 0..(ret.N - 1),
     zi \in 0..(ret.N - 1), o \in 0..7 :
    LET c == CellConstraint(call, xi, yi, zi, o)
    IN c.kind = "mccormick_point" => \A t \in tables : PointRowsGatedAt(c, ret.N, t)

\* Whether the rows of the orthant of a box with an intersection region are
\* gated as they should be at every table.
RegionRowsGated(rows, tables) ==
  \A t \in tables :
    LET x == ValuesOf(Col(R, 0), t.val)
        x1 == ValuesOf(Col(R, 1), t.val)
        x2 == ValuesOf(Col(R, 2), t.val)
    IN GatedAt(rows, ret.orthant_c_sum,
               RegionRelation(ret.geometry, ret.orthant, x, x1, x2, t.den),
               NormsAtMostOne(x, x1, x2, t.den), t.val, t.den)

\* C23: every indicator-gated constraint of States B and C binds only when
\* its box is active.  The vectors v, v1, v2 are a column or row of a
\* matrix of unit columns and its two companions, and the digits are those
\* of intervals that hold the entries.  With the
\* activation sum 0 the rows of the box reduce to the ungated relation
\* (v = u, u . v1 = 0, u . v2 = 0, u x v1 = v2 in State B; A v <= b,
\* |n . v1| <= sin(theta), |n . v2| <= sin(theta),
\* |v2 - n x v1| <= 2 sin(theta / 2) in State C); with the activation sum
\* >= 1 they hold whenever the norms of v, v1, v2 are at most 1, so no
\* vector of another box is excluded.
C23_GatedRowsBindOnlyTheActiveBox ==
  /\ (ret.op = "AddRotationMatrixMcCormickEnvelopeMilpConstraints" /\ ret.N >= 1 /\ ~ret.thrown)
       => PointRowsGated(ValueTables(prog, R, ReturnedDigits, ret.gray_codes, ret.N))
  /\ ret.op = "McCormickRegionRows"
       => RegionRowsGated(SubSeq(prog.cons, Len(ret.before.cons) + 1, Len(prog.cons)),
                          ValueTables(prog, R, DigitsOfFirstColumn, ret.gray_codes, ret.N))

\* Whether the constructor added a box with a corner on the sphere whose
\* rows are met at one table with the activation sum 0 (v = u and the
\* companions orthogonal to u), are broken at another table with the
\* activation sum 0, and are slack at a table with the activation sum >= 1.
PointRowsBindAndRelease(tables) ==
  \E call \in 0..5, xi \in 0..(ret.N - 1), yi \in 0..(ret.N - 1),
     zi \in 0..(ret.N - 1), o \in 0..7 :
    LET c == CellConstraint(call, xi, yi, zi, o)
    IN /\ c.kind = "mccormick_point"
       /\ \E t \in tables : /\ EvalLin(c.orthant_c_sum, t.val, t.den) = 0
                            /\ SatisfiesRows(c.rows, t.val, t.den)
       /\ \E t \in tables : /\ EvalLin(c.orthant_c_sum, t.val, t.den) = 0
                            /\ ~SatisfiesRows(c.rows, t.val, t.den)
       /\ \E t \in tables : /\ EvalLin(c.orthant_c_sum, t.val, t.den) >= t.den
                            /\ SatisfiesRows(c.rows, t.val, t.den)

C23_Witness ==
  /\ ret.op = "AddRotationMatrixMcCormickEnvelopeMilpConstraints"
  /\ ret.N = 3
  /\ PointRowsBindAndRelease(ValueTables(prog, R, ReturnedDigits, ret.gray_codes, ret.N))

\* Whether the digits b of every axis are the Gray code of an interval of
\* the axis, one of 0..2N-1.
DigitsAreIntervalCodes(b, gray_codes, N) ==
  \A axis \in Axes : \E m \in 0..(2 * N - 1) : b[axis] = gray_codes[m]

\* The orthant indices whose sign mask is `mask`.
OrthantsOfMask(mask) == {o \in 0..7 : OrthantToAxisMask(o) = mask}

\* C24: at most one box is active at a time.  For any 0/1 values of the
\* digits of the three axes at most one pair (grid cell, orthant) has all
\* three expressions of CalcBoxBinaryExpressionInOrthant equal to 0, and
\* exactly one pair has when the digits of each axis are the Gray code of an
\* interval index in 0..2N-1: the box whose full-axis interval indices are
\* those intervals.  The 8 orthant indices have 8 distinct sign masks.
C24_AtMostOneBoxIsActive ==
  /\ \A mask \in [Axes -> {-1, 1}] : Cardinality(OrthantsOfMask(mask)) = 1
  /\ ret.op = "CalcBoxBinaryExpressionInOrthant"
       => /\ Cardinality(ret.active) <= 1
          /\ DigitsAreIntervalCodes(ret.b, ret.gray_codes, ret.N)
               <=> Cardinality(ret.active) = 1
          /\ \A box \in ret.active :
               LET full == PositiveAxisIntervalIndexToFullAxisIntervalIndex(
                               Vec3(box[1], box[2], box[3]), box[4], ret.N)
               IN \A axis \in Axes : ret.b[axis] = ret.gray_codes[full[axis]]

\* Digits that are codes of intervals on a grid where some codes belong to
\* no interval, with the one active box in an orthant of mixed signs.
C24_Witness ==
  /\ ret.op = "CalcBoxBinaryExpressionInOrthant"
  /\ ret.N = 3
  /\ DigitsAreIntervalCodes(ret.b, ret.gray_codes, ret.N)
  /\ \E box \in ret.active : box[4] \in 1..6 /\ ret.active = {box}

\* C25: PickBinaryExpressionGivenInterval never reads a Gray-code row
\* outside the table.  Every interval index that its entry assertion admits
\* is the index of a row of the table, 0 <= interval_idx < rows; and every
\* index the function is given for a box and orthant of the grid is in
\* 0..2N-1, below the 2^ceil(log2(2N)) rows of the table.
C25_NeverReadsOutsideTheTable ==
  /\ ret.op = "PickBinaryExpressionGivenInterval"
       => ret.interval_idx \in DOMAIN ret.gray_codes
  /\ ret.op = "CalcBoxBinaryExpressionInOrthant"
       => /\ 2 * ret.N - 1 < Cardinality(DOMAIN ret.gray_codes)
          /\ DOMAIN ret.gray_codes = 0..(Cardinality(DOMAIN ret.gray_codes) - 1)
          /\ \A xi \in 0..(ret.N - 1), yi \in 0..(ret.N - 1), zi \in 0..(ret.N - 1),
                o \in 0..7 :
               \A axis \in Axes :
                 PositiveAxisIntervalIndexToFullAxisIntervalIndex(
                     Vec3(xi, yi, zi), o, ret.N)[axis] \in 0..(2 * ret.N - 1)

\* The vector of index i that a call constrains or takes as a companion:
\* column i of R in the calls 0, 2, 4 and row i of R in the calls 1, 3, 5.
VectorOfCall(call, i) == IF call % 2 = 0 THEN Col(R, i) ELSE Row(R, i)

\* C26: the McCormick vector constraints are emitted exactly six times, for
\* column 0, row 0, column 1, row 1, column 2, row 2 of R.  The call for the
\* vector of index i takes the vectors of index (i + 1) mod 3 and
\* (i + 2) mod 3 as its companions v1 and v2, and the digits it is given for
\* axis j are those of the j-th entry of the vector itself: B[k](j, i) for
\* column i, B[k](i, j) for row i.  The six blocks of 8 N^3 entries follow
\* the last unit-length row, which is a row on the lambda variables.
C26_SixCallsWithCyclicCompanions ==
  (ret.op = "AddRotationMatrixMcCormickEnvelopeMilpConstraints" /\ ret.N >= 1 /\ ~ret.thrown)
  => /\ LET last == prog.cons[Len(prog.cons) - 6 * 8 * ret.N * ret.N * ret.N]
        IN /\ last.kind = "linear"
           /\ \A t \in 1..Len(last.e.terms) : prog.vars[last.e.terms[t][2]].name = "lambda"
     /\ \A call \in 0..5, xi \in 0..(ret.N - 1), yi \in 0..(ret.N - 1),
           zi \in 0..(ret.N - 1), o \in 0..7 :
          LET c == CellConstraint(call, xi, yi, zi, o)
              i == call \div 2
              indicator == CalcBoxBinaryExpressionInOrthant(
                             xi, yi, zi, o, ret.gray_codes, DigitsOfCall(call), ret.N)
              indicator_sum == LinPlus(indicator[0], LinPlus(indicator[1], indicator[2]))
          IN IF c.kind = "linear"
               THEN c = LinearGe(indicator_sum, LinConst(1))
               ELSE /\ c.kind \in {"mccormick_point", "mccormick_region"}
                    /\ c.orthant_c_sum = indicator_sum
                    /\ c.v = VectorOfCall(call, i)
                    /\ c.v1 = VectorOfCall(call, (i + 1) % 3)
                    /\ c.v2 = VectorOfCall(call, (i + 2) % 3)

\* A grid with boxes of all three states, and the call for row 2, whose
\* companions are rows 0 and 1.
C26_Witness ==
  /\ ret.op = "AddRotationMatrixMcCormickEnvelopeMilpConstraints"
  /\ ret.N = 3
  /\ \E xi \in 0..2, yi \in 0..2, zi \in 0..2 :
       LET c == CellConstraint(5, xi, yi, zi, 0)
       IN /\ c.kind = "mccormick_point"
          /\ c.v = Row(R, 2) /\ c.v1 = Row(R, 0) /\ c.v2 = Row(R, 1)

\* C27: the breakpoints of the McCormick constructor.  phi_vec has the
\* 2N + 1 entries phi(k) = k / N - 1, k = 0..2N (kept times N: k - N).  It
\* is strictly increasing with the step 1 / N, starts at -1, ends at 1, has
\* phi(N) = 0 and is symmetric, phi(k) = -phi(2N - k).  So the full-axis
\* interval m of 0..2N-1 is [phi(m), phi(m + 1)]: for the positive-axis
\* index idx the interval selected on an axis of positive sign is
\* [idx / N, (idx + 1) / N], and the one selected on an axis of negative
\* sign is its mirror image [-(idx + 1) / N, -idx / N].
C27_BreakpointsAndIntervals ==
  (ret.op = "AddRotationMatrixMcCormickEnvelopeMilpConstraints" /\ ret.N >= 1)
  => LET N == ret.N
         phi == ret.phi_vec
     IN /\ DOMAIN phi = 0..(2 * N)
        /\ \A k \in 0..(2 * N) : phi[k] = k - N
        /\ \A k \in 0..(2 * N - 1) : phi[k + 1] - phi[k] = 1
        /\ phi[0] = -N /\ phi[2 * N] = N /\ phi[N] = 0
        /\ \A k \in 0..(2 * N) : phi[k] = -phi[2 * N - k]
        /\ \A xi \in 0..(N - 1), yi \in 0..(N - 1), zi \in 0..(N - 1), o \in 0..7 :
             LET m == PositiveAxisIntervalIndexToFullAxisIntervalIndex(Vec3(xi, yi, zi), o, N)
                 lo == FlipVector(Vec3(xi, yi, zi), o)
                 hi == FlipVector(Vec3(xi + 1, yi + 1, zi + 1), o)
             IN \A axis \in Axes :
                  /\ m[axis] \in 0..(2 * N - 1)
                  /\ IF OrthantToAxisMask(o)[axis] > 0
                       THEN phi[m[axis]] = lo[axis] /\ phi[m[axis] + 1] = hi[axis]
                       ELSE phi[m[axis]] = hi[axis] /\ phi[m[axis] + 1] = lo[axis]

\* A grid of three intervals per half axis: seven breakpoints, of which the
\* fourth is 0.
C27_Witness ==
  /\ ret.op = "AddRotationMatrixMcCormickEnvelopeMilpConstraints"
  /\ ret.N = 3
  /\ Cardinality(DOMAIN ret.phi_vec) = 7
  /\ ret.phi_vec[3] = 0
  /\ ret.phi_vec[1] = -2

\* The plane of the triangle t of the points pts, as
\* ComputeTriangleOutwardNormal gives it.
PlaneOfTriangle(pts, den, t) ==
  ComputeTriangleOutwardNormal(pts[t[1]], pts[t[2]], pts[t[3]], den)

\* Whether some point of pts lies below the plane c . x = d by more than
\* the tolerance; a nonzero integer numerator exceeds it.
SomePointBelow(c, pts) == \E l \in 1..Len(pts) : Dot(c.n, pts[l]) < c.d

\* C28: every facet that ComputeInnerFacetsForBoxSphereIntersection returns
\* is valid for all the input points, A.row(i) . p <= b(i) + 1e-10 for every
\* input point p.  The plane of a triangle that has another input point
\* below it by more than 1e-10 is not returned, and a 3-subset of the points
\* gives at most one row: the rows are the negated planes of the triangles
\* with no point below, one each, in the order of the triangles.
C28_InnerFacetsAreValidForAllPoints ==
  (ret.op = "ComputeInnerFacetsForBoxSphereIntersection" /\ ret.result.status = "ok")
  => LET pts == ret.pts
         facets == ret.result.facets
         kept == SelectSeq(Triangles(Len(pts)),
                           LAMBDA t : ~SomePointBelow(PlaneOfTriangle(pts, ret.den, t), pts))
     IN /\ \A r \in 1..Len(facets), l \in 1..Len(pts) :
             Dot(facets[r].n, pts[l]) <= facets[r].d
        /\ Len(facets) = Len(kept)
        /\ \A r \in 1..Len(facets) :
             LET c == PlaneOfTriangle(pts, ret.den, kept[r])
             IN facets[r].n = Negated(c.n) /\ facets[r].d = -c.d

\* Four points of which some triangles are kept and some are not.
C28_Witness ==
  /\ ret.op = "ComputeInnerFacetsForBoxSphereIntersection"
  /\ ret.result.status = "ok"
  /\ Len(ret.pts) = 4
  /\ Len(ret.result.facets) >= 1
  /\ Len(ret.result.facets) < Len(Triangles(4))

\* The positions in the program of the rows that hold lambda variables
\* only: the unit-length rows are the last of them.
RowsOnLambdaOnly ==
  {k \in 1..Len(prog.cons) :
     /\ prog.cons[k].kind = "linear"
     /\ \A t \in 1..Len(prog.cons[k].e.terms) :
          prog.vars[prog.cons[k].e.terms[t][2]].name = "lambda"}

\* The digits of the entries of column 0 of R, read from the SOS2
\* constraints of the entries (0, 0), (1, 0), (2, 0).
DigitsOfFirstColumnInProgram ==
  LET sos2 == SelectSeq(prog.cons, LAMBDA c : c.kind = "sos2")
  IN [axis \in Axes |-> sos2[3 * axis + 1].y]

\* C29: the McCormick constructor is not rolled back when it fails.  When
\* "The points are almost colinear." is thrown while a box is processed,
\* the call ends with that error and returns nothing; what the caller's
\* program held before the call is still in it, and so is everything the
\* call added before the box: the variables and constraints of the nine
\* entries up to the last unit-length row, followed by the constraints of
\* the boxes that precede the failing box in the first call of
\* AddMcCormickVectorConstraints (the one for column 0), eight per box.
\* Nothing is added for the failing box, for a later box or by a later
\* call.  The call fails exactly when some box has three almost colinear
\* intersection points.
C29_NoRollbackWhenAlmostColinearIsThrown ==
  (ret.op = "AddRotationMatrixMcCormickEnvelopeMilpConstraints" /\ ret.N >= 1)
  => LET N == ret.N
         failing == {cell \in 0..(N * N * N - 1) :
                       AlmostColinearIsThrownInCell(cell \div (N * N), (cell \div N) % N,
                                                    cell % N, N)}
     IN /\ ret.thrown <=> failing # {}
        /\ ret.thrown
             => \E first \in failing :
                  /\ \A cell \in failing : first <= cell
                  /\ ret.B = <<>>
                  /\ ~ret.aborted
                  /\ SubSeq(prog.vars, 1, Len(ret.before.vars)) = ret.before.vars
                  /\ SubSeq(prog.cons, 1, Len(ret.before.cons)) = ret.before.cons
                  /\ Len(prog.vars) = Len(ret.before.vars)
                                        + 9 * (NumLambda(N) + NumDigits(NumLambda(N)))
                  /\ Cardinality({k \in 1..Len(prog.cons) : prog.cons[k].kind = "sos2"}) = 9
                  /\ Len(prog.cons) - 8 * first \in RowsOnLambdaOnly
                  /\ \A k \in 1..(8 * first) :
                       prog.cons[Len(prog.cons) - 8 * first + k]
                         = McCormickCellConstraints(
                             Col(R, 0), DigitsOfFirstColumnInProgram, Col(R, 1), Col(R, 2), N,
                             ret.gray_codes, ((k - 1) \div 8) \div (N * N),
                             (((k - 1) \div 8) \div N) % N, ((k - 1) \div 8) % N, (k - 1) % 8)

\* The call that fails in the box (2, 3, 4) of the grid N = 7, after boxes
\* of all three states have been completed.
C29_Witness ==
  /\ ret.op = "AddRotationMatrixMcCormickEnvelopeMilpConstraints"
  /\ ret.N = GridWithAlmostColinearTriangle
  /\ ret.thrown
  /\ Len(prog.cons) > Len(ret.before.cons) + 8 * (2 * 49 + 3 * 7 + 4)
  /\ \A kind \in {"linear", "mccormick_point", "mccormick_region"} :
       \E k \in 1..(8 * (2 * 49 + 3 * 7 + 4)) :
         prog.cons[Len(prog.cons) - k + 1].kind = kind

----------------------------------------------------------------------------
(* The candidate queue of inverse_kinematics.                              *)

\* The joints a chain of solution positions selects: position c[1] in the
\* list of q1, position c[2] in the list q2 returns for that q1, and so on.
JointOfQ1(sol, c) == sol.q1[c[1]]
JointOfQ2(sol, c) == sol.q2[JointOfQ1(sol, c)][c[2]]
JointOfQ3(sol, c) == sol.q3[<<JointOfQ1(sol, c), JointOfQ2(sol, c)>>][c[3]]
JointsOfQ456(sol, c) ==
  sol.q456[<<JointOfQ1(sol, c), JointOfQ2(sol, c) + JointOfQ3(sol, c)>>][c[4]]

\* c is a chain of solutions of the first "stages" stages.
IsChainOfSolutions(sol, c, stages) ==
  /\ c[1] \in 1..Len(sol.q1)
  /\ stages >= 2 => c[2] \in 1..Len(sol.q2[JointOfQ1(sol, c)])
  /\ stages >= 3 =>
       c[3] \in 1..Len(sol.q3[<<JointOfQ1(sol, c), JointOfQ2(sol, c)>>])
  /\ stages >= 4 =>
       c[4] \in 1..Len(sol.q456[<<JointOfQ1(sol, c),
                                 JointOfQ2(sol, c) + JointOfQ3(sol, c)>>])

ChainsOfSolutions(sol, stages) ==
  {c \in [1..stages -> 1..2] : IsChainOfSolutions(sol, c, stages)}

\* The joint vector of a chain: the joints of its stages, nothing else.
VectorOfChain(sol, c, stages) ==
  [j \in 0..5 |->
     CASE j = 0 -> JointOfQ1(sol, c)
       [] j = 1 -> IF stages >= 2 THEN JointOfQ2(sol, c) ELSE Unassigned
       [] j = 2 -> IF stages >= 3 THEN JointOfQ3(sol, c) ELSE Unassigned
       [] j >= 3 -> IF stages >= 4 THEN JointsOfQ456(sol, c)[j - 2] ELSE Unassigned]

\* d comes before c when the solvers' lists are walked candidate by candidate.
ChainBefore(d, c) ==
  \E k \in DOMAIN c : d[k] < c[k] /\ \A m \in 1..(k - 1) : d[m] = c[m]

\* The queue holds one candidate per chain of the first "stages" stages, in
\* the order of the chains, and nothing else.
QueueHoldsTheChains(q_all, sol, stages) ==
  \E chains \in {ChainsOfSolutions(sol, stages)} :
     /\ Len(q_all) = Cardinality(chains)
     /\ \A c \in chains :
          q_all[1 + Cardinality({d \in chains : ChainBefore(d, c)})]
            = VectorOfChain(sol, c, stages)

\* The number of q456 solutions of the candidates n..Len(q_all).
RECURSIVE SolutionsOfQ456From(_, _, _)
SolutionsOfQ456From(q_all, n, sol) ==
  IF n > Len(q_all) THEN 0
  ELSE Len(sol.q456[<<q_all[n][0], q_all[n][1] + q_all[n][2]>>])
         + SolutionsOfQ456From(q_all, n + 1, sol)

\* C30: inverse_kinematics runs the four stages q1, q2, q3, q4-q5-q6 over
\* its queue and returns exactly one joint vector for every chain of stage
\* solutions. After each stage the queue holds exactly the candidates that
\* stage extended, in the order of their chains, with the joints of the
\* stages so far assigned and the others not yet written; a candidate for
\* which a later stage has no solution leaves nothing in the result; every
\* returned vector has its six joints assigned by the stages; the vector
\* returned is the queue in first-in-first-out order.
C30_OneVectorPerChainOfStageSolutions ==
  ret.op = "inverse_kinematics"
  => /\ QueueHoldsTheChains(ret.after_q1, ret.sol, 1)
     /\ QueueHoldsTheChains(ret.after_q2, ret.sol, 2)
     /\ QueueHoldsTheChains(ret.after_q3, ret.sol, 3)
     /\ QueueHoldsTheChains(ret.after_q456, ret.sol, 4)
     /\ \A n \in DOMAIN ret.after_q2 :
          \A j \in 0..5 : (ret.after_q2[n][j] # Unassigned) <=> j <= 1
     /\ \A n \in DOMAIN ret.after_q3 :
          \A j \in 0..5 : (ret.after_q3[n][j] # Unassigned) <=> j <= 2
     /\ Len(ret.q_all_vec) = SolutionsOfQ456From(ret.after_q3, 1, ret.sol)
     /\ (\A n \in DOMAIN ret.after_q3 :
           ret.sol.q456[<<ret.after_q3[n][0],
                          ret.after_q3[n][1] + ret.after_q3[n][2]>>] = <<>>)
        => ret.q_all_vec = <<>>
     /\ \A n \in DOMAIN ret.q_all_vec :
          \A j \in 0..5 : ret.q_all_vec[n][j] \in JointValues
     /\ ret.q_all_vec = ret.after_q456

\* A call where q1 has two solutions, a candidate of the second stage has
\* no q3 solution, a candidate of the third stage has no q456 solution and
\* three or more vectors are returned.
C30_Witness ==
  /\ ret.op = "inverse_kinematics"
  /\ Len(ret.sol.q1) = 2
  /\ \E n \in DOMAIN ret.after_q2 :
       ret.sol.q3[<<ret.after_q2[n][0], ret.after_q2[n][1]>>] = <<>>
  /\ \E n \in DOMAIN ret.after_q3 :
       ret.sol.q456[<<ret.after_q3[n][0],
                      ret.after_q3[n][1] + ret.after_q3[n][2]>>] = <<>>
  /\ Len(ret.q_all_vec) >= 3
  /\ \E n \in DOMAIN ret.q_all_vec : ret.q_all_vec[n][0] = 0
  /\ \E n \in DOMAIN ret.q_all_vec : ret.q_all_vec[n][0] = 1

====
